---- MODULE Spec2Model ----
(***************************************************************************)
(* The FCPEG grammar-source translator (impl/rust/fcpeg/src/block.rs):     *)
(* BlockParser::get_rule_map drives one BlockParser per grammar file,      *)
(* to_block_map walks the blocks and commands of the file's syntax tree,   *)
(* to_block_cmd dispatches on the command node, and the to_* helpers lower *)
(* a rule body.                                                            *)
(*                                                                         *)
(* A Rust String is modelled as the sequence of its characters, so that    *)
(* format!, join, split and starts_with are computed and not assumed.      *)
(***************************************************************************)
EXTENDS Integers, Sequences, FiniteSets, TLC

VARIABLES
    pc,                 \* position of get_rule_map / to_block_map
    todo,               \* entries of fcpeg_file_map not yet iterated
    cons,               \* the Console log (the diagnostics sink)
    file_alias_name,    \* BlockParser.file_alias_name
    block_name,         \* BlockParser.block_name
    block_alias_map,    \* BlockParser.block_alias_map
    start_rule_id,      \* BlockParser.start_rule_id
    appeared_block_ids, \* the shared appeared-ids map
    block_map,          \* to_block_map: local block_map
    cmds,               \* to_block_map: local cmds
    rule_names,         \* to_block_map: local rule_names
    block_maps,         \* get_rule_map: local block_maps
    rm_start_rule_id,   \* get_rule_map: local start_rule_id
    rule_map,           \* get_rule_map: the returned RuleMap (Option)
    use_src,            \* history: alias -> chain of the Use command that set it
    last,               \* history: the input and the outcome of the last step
    self_token_i,       \* BlockParser.token_i of the token parser
    self_tokens         \* BlockParser.tokens of the token parser

vars == <<pc, todo, cons, file_alias_name, block_name, block_alias_map,
          start_rule_id, appeared_block_ids, block_map, cmds, rule_names,
          block_maps, rm_start_rule_id, rule_map, use_src, last,
          self_token_i, self_tokens>>

----------------------------------------------------------------------------
(* Bounds of the model.                                                    *)

MaxCmds == 2        \* commands translated in one run
MaxBlocks == 2      \* blocks of all files of one run
MaxSeqElems == 2    \* SeqElem nodes of one lowered Seq
MaxNum == 2         \* largest number written in a loop range
MaxStrLen == 3      \* elements of one Str node
MaxAlts == 3        \* alternatives of one lowered PureChoice

----------------------------------------------------------------------------
(* Strings, Option and Result.                                             *)

None == <<>>
Some(v) == <<v>>
is_some(o) == Len(o) = 1
unwrap(o) == o[1]

Ok(v, logs) == [ok |-> TRUE, val |-> v, logs |-> logs]
Err(logs) == [ok |-> FALSE, val |-> None, logs |-> logs]

Empty == <<>>                       \* String::new()
Main == <<"M", "a", "i", "n">>
Upper == {"A", "B", "F", "M", "O", "R", "X"}

\* format!("{}.{}", a, b)
format2(a, b) == a \o <<".">> \o b
\* format!("{}.{}.{}", a, b, c)
format3(a, b, c) == a \o <<".">> \o b \o <<".">> \o c

RECURSIVE split_acc(_, _, _)
split_acc(s, cur, acc) ==
    IF s = <<>> THEN Append(acc, cur)
    ELSE IF Head(s) = "." THEN split_acc(Tail(s), <<>>, Append(acc, cur))
    ELSE split_acc(Tail(s), Append(cur, Head(s)), acc)

\* str::split(".").collect::<Vec<&str>>()
split(s) == split_acc(s, <<>>, <<>>)

RECURSIVE join(_)
\* Vec<String>::join(".")
join(v) ==
    IF v = <<>> THEN <<>>
    ELSE IF Len(v) = 1 THEN v[1]
    ELSE v[1] \o <<".">> \o join(Tail(v))

starts_with(s, c) == Len(s) > 0 /\ s[1] = c

contains(vec, x) == \E i \in 1..Len(vec) : vec[i] = x

\* HashMap::insert
insert(map, k, v) == [x \in DOMAIN map \cup {k} |-> IF x = k THEN v ELSE map[x]]
EmptyMap == [x \in {} |-> <<>>]

----------------------------------------------------------------------------
(* Diagnostics.                                                            *)

\* BlockParseError::get_log: the severity of every kind
get_log(kind, arg) ==
    [kind |-> kind,
     level |-> IF kind \in {"AttemptToAccessPrivateItem", "NamingRuleViolation"}
               THEN "Warning" ELSE "Error",
     arg |-> arg]

\* SyntaxParseError::get_log (parser.rs): InternalError,
\* InvalidSyntaxTreeStructure and UnknownRuleID are errors
syntax_get_log(kind, arg) == [kind |-> kind, level |-> "Error", arg |-> arg]

\* Console::pop_log
pop_log(log) == IF log = <<>> THEN log ELSE SubSeq(log, 1, Len(log) - 1)

count(log, kind) == Cardinality({i \in 1..Len(log) : log[i].kind = kind})

----------------------------------------------------------------------------
(* Identifiers of the grammar sources the model translates.                *)

IdF == <<"f">>
IdA == <<"A">>
IdB == <<"B">>
IdO == <<"O">>
IdR == <<"R">>
IdX == <<"X">>
IdPrivR == <<"_", "R">>

FileAliases == {Empty, IdF}
BlockNames == {Main, IdA}
RuleNames == {IdR, IdPrivR}

\* BlockParser::is_pascal_case
is_pascal_case(id) ==
    IF Len(id) = 0 THEN FALSE
    ELSE IF id[1] # "_" THEN id[1] \in Upper
    ELSE IF Len(id) >= 2 THEN id[2] \in Upper
    ELSE FALSE

\* BlockParser::to_chain_id: the SingleID children joined by "."
to_chain_id(chain_id_node) == join(chain_id_node)

\* BlockParser::to_string_vec: the SingleID children as a vector
to_string_vec(str_vec_node) == str_vec_node

----------------------------------------------------------------------------
(* BlockParser::to_rule_id.                                                *)

\* 1 token: the rule of the current block of the current file
rule_id_1(id_tokens, file, block) ==
    [new_id |-> format3(file, block, id_tokens[1]),
     id_block_name |-> block,
     id_rule_name |-> id_tokens[1]]

\* rule_id_2 without the look-up of the alias
rule_id_2_unmapped(id_tokens, alias_map) ==
    [new_id |-> format2(id_tokens[1], id_tokens[2]),
     id_block_name |-> id_tokens[1],
     id_rule_name |-> id_tokens[2]]

\* 2 tokens, the first a key of the block-alias table
rule_id_2(id_tokens, alias_map) ==
    [new_id |-> format2(alias_map[id_tokens[1]], id_tokens[2]),
     id_block_name |-> alias_map[id_tokens[1]],
     id_rule_name |-> id_tokens[2]]

\* 3 tokens: file, block, rule
rule_id_3(id_tokens) ==
    [new_id |-> format3(id_tokens[1], id_tokens[2], id_tokens[3]),
     id_block_name |-> id_tokens[2],
     id_rule_name |-> id_tokens[3]]

\* the privacy test of to_rule_id
is_private_access(block, id_block_name, id_rule_name) ==
    starts_with(id_rule_name, "_") /\ block # id_block_name

to_rule_id(id_tokens, alias_map, file, block) ==
    LET n == Len(id_tokens)
        r == CASE n = 1 -> Ok(rule_id_1(id_tokens, file, block), <<>>)
               [] n = 2 ->
                    IF id_tokens[1] \in DOMAIN alias_map
                    THEN Ok(rule_id_2(id_tokens, alias_map), <<>>)
                    ELSE Err(<<get_log("BlockAliasNotFound", id_tokens[1])>>)
               [] n = 3 -> Ok(rule_id_3(id_tokens), <<>>)
               [] OTHER -> Err(<<get_log("InternalError", join(id_tokens))>>)
    IN  IF ~r.ok THEN r
        ELSE Ok(r.val.new_id,
                IF is_private_access(block, r.val.id_block_name, r.val.id_rule_name)
                THEN <<get_log("AttemptToAccessPrivateItem", r.val.new_id)>>
                ELSE <<>>)

----------------------------------------------------------------------------
(* Start and Use commands.  A command node carries the SingleID children   *)
(* of its ChainID, and a Use node its optional UseCmdBlockAlias.           *)

StartCmd(file, block, rule) ==
    [cmd |-> "Start", file_alias_name |-> file, block_name |-> block, rule_name |-> rule]

UseCmd(file, block, alias) ==
    [cmd |-> "Use", file_alias_name |-> file, block_name |-> block,
     block_alias_name |-> alias]

\* the file alias of a Start command with a 2-component chain
start_file_2(file) == Empty

\* BlockParser::to_start_cmd
to_start_cmd(file, cmd_node) ==
    LET raw_id == to_chain_id(cmd_node.chain)
        divided_raw_id == split(raw_id)
    IN  CASE Len(divided_raw_id) = 2 ->
               Ok(StartCmd(start_file_2(file), divided_raw_id[1], divided_raw_id[2]), <<>>)
          [] Len(divided_raw_id) = 3 ->
               Ok(StartCmd(divided_raw_id[1], divided_raw_id[2], divided_raw_id[3]), <<>>)
          [] OTHER -> Err(<<get_log("InvalidID", raw_id)>>)

\* to_use_cmd: the file alias and the block alias of the command
use_file_and_alias(file, divided_raw_id, alias) ==
    IF is_some(alias)
    THEN Some(<<divided_raw_id[1], unwrap(alias)>>)
    ELSE CASE Len(divided_raw_id) = 1 -> Some(<<file, divided_raw_id[1]>>)
           [] Len(divided_raw_id) = 2 -> Some(<<divided_raw_id[1], divided_raw_id[2]>>)
           [] OTHER -> None

\* BlockParser::to_use_cmd
to_use_cmd(file, cmd_node) ==
    LET raw_id == to_chain_id(cmd_node.chain)
        divided_raw_id == split(raw_id)
        fa == use_file_and_alias(file, divided_raw_id, cmd_node.alias)
        err == Err(<<syntax_get_log("SyntaxInternalError", raw_id)>>)
    IN  IF ~is_some(fa) THEN err
        ELSE CASE Len(divided_raw_id) = 1 ->
                    Ok(UseCmd(unwrap(fa)[1], divided_raw_id[1], unwrap(fa)[2]), <<>>)
               [] Len(divided_raw_id) = 2 ->
                    Ok(UseCmd(unwrap(fa)[1], divided_raw_id[2], unwrap(fa)[2]), <<>>)
               [] OTHER -> err

----------------------------------------------------------------------------
(* The rule-graph values (rule.rs) built by the translator.                *)

Normal(v) == <<v>>          \* Infinitable::Normal
Infinite == <<>>            \* Infinitable::Infinite

\* RuleElementLoopCount::new
RuleElementLoopCount(min, max) == [min |-> min, max |-> max]

\* RuleElementLoopCount::from_symbol
from_symbol(symbol) ==
    CASE symbol = "?" -> RuleElementLoopCount(0, Normal(1))
      [] symbol = "*" -> RuleElementLoopCount(0, Infinite)
      [] symbol = "+" -> RuleElementLoopCount(1, Infinite)

\* RuleElementLoopCount::get_single_loop
get_single_loop == RuleElementLoopCount(1, Normal(1))

\* ASTReflectionStyle::from_config: kept as the call with its arguments
from_config(a, b, name) == [style |-> "FromConfig", args |-> <<a, b, name>>]
Expansion == [style |-> "Expansion", args |-> <<>>]
Reflection(name) == [style |-> "Reflection", args |-> <<name>>]
NoReflection == [style |-> "NoReflection", args |-> <<>>]

\* RuleGroup::new
RuleGroup(kind, sub_elems) ==
    [elem |-> "Group", kind |-> kind, sub_elems |-> sub_elems,
     lookahead_kind |-> "None", loop_count |-> get_single_loop,
     ast_reflection_style |-> NoReflection]

\* RuleExpression::new
RuleExpression(pos, kind, value, args) ==
    [elem |-> "Expression", pos |-> pos, kind |-> kind, value |-> value, args |-> args,
     lookahead_kind |-> "None", loop_count |-> get_single_loop,
     ast_reflection_style |-> NoReflection]

\* the three decorations to_seq_elem assigns to a lowered element
decorate(e, lookahead_kind, loop_count, style) ==
    [e EXCEPT !.lookahead_kind = lookahead_kind, !.loop_count = loop_count,
              !.ast_reflection_style = style]

\* Rule::new
Rule(pos, name, rule_name, generics_args, func_args, group) ==
    [pos |-> pos, name |-> name, rule_name |-> rule_name,
     generics_args |-> generics_args, func_args |-> func_args, group |-> group]

----------------------------------------------------------------------------
(* Loop nodes.  A Loop node is the leaf "?", "*" or "+", or a LoopRange    *)
(* node whose two children are a Num node (its digits) or the empty leaf.  *)

Digits == <<"0", "1", "2", "3", "4", "5", "6", "7", "8", "9">>
digit_value(c) == (CHOOSE i \in 1..10 : Digits[i] = c) - 1

RECURSIVE parse_acc(_, _)
parse_acc(str, acc) ==
    IF str = <<>> THEN acc ELSE parse_acc(Tail(str), 10 * acc + digit_value(Head(str)))

\* str::parse::<usize> of a Num; empty or non-digit text does not parse
parse_usize(str) ==
    IF str # <<>> /\ \A i \in 1..Len(str) : \E d \in 1..10 : Digits[d] = str[i]
    THEN Some(parse_acc(str, 0)) ELSE None

InvalidLoopCount == Err(<<get_log("InvalidLoopCount", Empty)>>)

\* the min of a LoopRange; a written 0 is refused
loop_min(min_child) ==
    IF is_some(min_child)
    THEN LET v == parse_usize(unwrap(min_child))
         IN  IF is_some(v) /\ unwrap(v) # 0 THEN Ok(unwrap(v), <<>>) ELSE InvalidLoopCount
    ELSE Ok(0, <<>>)

\* the max of a LoopRange
loop_max(max_child) ==
    IF is_some(max_child)
    THEN LET v == parse_usize(unwrap(max_child))
         IN  IF is_some(v) THEN Ok(Normal(unwrap(v)), <<>>) ELSE InvalidLoopCount
    ELSE Ok(Infinite, <<>>)

\* to_seq_elem: the loop count of one SeqElem
to_loop_count(loop_node) ==
    IF ~is_some(loop_node) THEN Ok(get_single_loop, <<>>)
    ELSE LET v == unwrap(loop_node)
         IN  IF v.kind = "Node"
             THEN LET min_num == loop_min(v.min)
                      max_num == loop_max(v.max)
                  IN  IF ~min_num.ok THEN min_num
                      ELSE IF ~max_num.ok THEN max_num
                      ELSE Ok(RuleElementLoopCount(min_num.val, max_num.val), <<>>)
             ELSE IF v.value \in {"?", "*", "+"} THEN Ok(from_symbol(v.value), <<>>)
             ELSE Err(<<syntax_get_log("SyntaxInvalidSyntaxTreeStructure", Empty)>>)

\* to_seq_elem: the lookahead kind of one SeqElem
to_lookahead_kind(lookahead_node) ==
    IF ~is_some(lookahead_node) THEN Ok("None", <<>>)
    ELSE CASE unwrap(lookahead_node) = "&" -> Ok("Positive", <<>>)
           [] unwrap(lookahead_node) = "!" -> Ok("Negative", <<>>)
           [] OTHER -> Err(<<syntax_get_log("SyntaxInvalidSyntaxTreeStructure", Empty)>>)

RECURSIVE flatten(_)
\* SyntaxNode::join_child_leaf_values
flatten(leaves) == IF leaves = <<>> THEN <<>> ELSE Head(leaves) \o flatten(Tail(leaves))

\* to_seq_elem: the reflection style of one SeqElem and the log after it;
\* a style node with no leaf fails get_leaf_child_at, whose log is popped
to_ast_reflection_style(style_node, logs) ==
    IF ~is_some(style_node) THEN [style |-> from_config(FALSE, FALSE, Empty), logs |-> logs]
    ELSE IF unwrap(style_node) # <<>>
    THEN [style |-> IF unwrap(style_node)[1] = <<"#", "#">> THEN Expansion
                    ELSE Reflection(flatten(unwrap(style_node))),
          logs |-> logs]
    ELSE [style |-> from_config(FALSE, TRUE, Empty),
          logs |-> pop_log(Append(logs, syntax_get_log("SyntaxInvalidSyntaxTreeStructure", Empty)))]

----------------------------------------------------------------------------
(* BlockParser::to_string_value.  A Str node holds EscSeq nodes (the       *)
(* character after the backslash is their first leaf) and character        *)
(* leaves; only reflected elements contribute.                             *)

\* the table of escape characters without \z
escape_char_no_nul(c) ==
    CASE c = "\\" -> Some("\\")
      [] c = "\"" -> Some("\"")
      [] c = "n" -> Some("\n")
      [] c = "t" -> Some("\t")
      [] OTHER -> None

\* the table of escape characters
escape_char(c) ==
    CASE c = "\\" -> Some("\\")
      [] c = "\"" -> Some("\"")
      [] c = "n" -> Some("\n")
      [] c = "t" -> Some("\t")
      [] c = "z" -> Some("NUL")
      [] OTHER -> None

RECURSIVE to_string_value_from(_, _, _)
to_string_value_from(sub_elems, i, s) ==
    IF i > Len(sub_elems) THEN Ok(s, <<>>)
    ELSE LET each_elem == sub_elems[i]
         IN  IF ~each_elem.reflect THEN to_string_value_from(sub_elems, i + 1, s)
             ELSE IF each_elem.kind = "Node"
             THEN IF is_some(escape_char(each_elem.value))
                  THEN to_string_value_from(sub_elems, i + 1,
                                            Append(s, unwrap(escape_char(each_elem.value))))
                  ELSE Err(<<get_log("UnknownEscapeSequenceCharacter", <<each_elem.value>>)>>)
             ELSE to_string_value_from(sub_elems, i + 1, Append(s, each_elem.value))

to_string_value(str_node) == to_string_value_from(str_node.sub_elems, 1, <<>>)

----------------------------------------------------------------------------
(* Lowering of a rule body.  The lowering functions read the parser's      *)
(* block-alias table, file alias and block name (ctx) and write the log    *)
(* and the appeared-ids map (st).  A function that goes on after a call    *)
(* with `?` is written as the call followed by an operator on its result.  *)

PRIM_FUNC_NAMES == {<<"J", "O", "I", "N">>}

Res(ok, val, st) == [ok |-> ok, val |-> val, st |-> st]
logged(st, logs) == [st EXCEPT !.logs = st.logs \o logs]

\* the id recorded with the position of every reference
appeared_with_last(r, pos, st) ==
    IF r.ok
    THEN Res(TRUE, r.val,
             [logs |-> st.logs \o r.logs, appeared |-> insert(st.appeared, r.val, pos)])
    ELSE Res(FALSE, None, logged(st, r.logs))

\* to_rule_expr_elem: the id is recorded in the appeared-ids map when new
appeared_with(r, pos, st) ==
    IF r.ok
    THEN Res(TRUE, r.val,
             [logs |-> st.logs \o r.logs,
              appeared |-> IF r.val \in DOMAIN st.appeared THEN st.appeared
                           ELSE insert(st.appeared, r.val, pos)])
    ELSE Res(FALSE, None, logged(st, r.logs))

\* to_rule_expr_elem: resolve an id and record it when it is new
resolve_id(raw_id, pos, ctx, st) ==
    appeared_with(to_rule_id(raw_id, ctx.alias_map, ctx.file, ctx.block), pos, st)

RECURSIVE to_seq_elem_from(_, _, _, _, _)
RECURSIVE to_rule_choice_elem_from(_, _, _, _, _, _)
RECURSIVE to_rule_expr_elem(_, _, _)
RECURSIVE to_args_from(_, _, _, _, _)

\* BlockParser::to_rule_choice_elem
to_rule_choice_elem(choice_node, ctx, st) ==
    to_rule_choice_elem_from(choice_node.sub_elems, 1, <<>>, "Sequence", ctx, st)

\* BlockParser::to_seq_elem
to_seq_elem(seq_node, ctx, st) == to_seq_elem_from(seq_node.sub_elems, 1, <<>>, ctx, st)

\* to_rule_choice_elem: children.push(new_child) and the rest of the loop
choice_push(new_child, sub_elems, i, children, group_kind, ctx) ==
    IF ~new_child.ok THEN new_child
    ELSE to_rule_choice_elem_from(sub_elems, i + 1, Append(children, new_child.val),
                                  group_kind, ctx, new_child.st)

\* to_rule_choice_elem: the loop over the Seq nodes and the separator leaves
to_rule_choice_elem_from(sub_elems, i, children, group_kind, ctx, st) ==
    IF i > Len(sub_elems)
    THEN Res(TRUE, RuleGroup("Sequence", <<RuleGroup(group_kind, children)>>), st)
    ELSE IF sub_elems[i].kind = "Node"
    THEN IF sub_elems[i].name = ".Rule.Seq"
         THEN choice_push(to_seq_elem(sub_elems[i], ctx, st), sub_elems, i, children,
                          group_kind, ctx)
         ELSE to_rule_choice_elem_from(sub_elems, i + 1, children, group_kind, ctx, st)
    ELSE to_rule_choice_elem_from(sub_elems, i + 1, children,
             IF sub_elems[i].value \in {":", ","} THEN "Choice" ELSE group_kind, ctx, st)

\* to_rule_expr_elem: args.push(arg) and the rest of the loop
args_push(arg, nodes, i, args, ctx) ==
    IF ~arg.ok THEN arg
    ELSE to_args_from(nodes, i + 1, Append(args, arg.val), ctx, arg.st)

\* to_rule_expr_elem: the argument groups of a Generics or Func expression
to_args_from(nodes, i, args, ctx, st) ==
    IF i > Len(nodes) THEN Res(TRUE, args, st)
    ELSE args_push(to_rule_choice_elem(nodes[i], ctx, st), nodes, i, args, ctx)

\* to_rule_expr_elem: the expression made of a resolved id
expr_of_id(id, pos, kind, args) ==
    IF ~id.ok THEN id
    ELSE Res(TRUE, RuleExpression(pos, kind, id.val, args), id.st)

\* the id after the arguments when the primitive names are looked up whatever
\* the kind of the node
expr_with_args_any_name(args, name, raw_id, kind, ctx) ==
    IF ~args.ok THEN args
    ELSE IF join(raw_id) \in PRIM_FUNC_NAMES
    THEN Res(TRUE, RuleExpression(ctx.pos, kind, join(raw_id), args.val), args.st)
    ELSE expr_of_id(resolve_id(raw_id, ctx.pos, ctx, args.st), ctx.pos, kind, args.val)

\* to_rule_expr_elem, ".Rule.Generics" | ".Rule.Func": the id after the arguments
expr_with_args(args, name, raw_id, kind, ctx) ==
    IF ~args.ok THEN args
    ELSE IF name = ".Rule.Func" /\ join(raw_id) \in PRIM_FUNC_NAMES
    THEN Res(TRUE, RuleExpression(ctx.pos, kind, join(raw_id), args.val), args.st)
    ELSE expr_of_id(resolve_id(raw_id, ctx.pos, ctx, args.st), ctx.pos, kind, args.val)

\* to_rule_expr_elem, ".Rule.Str"
expr_of_str(v, st) ==
    IF ~v.ok THEN Res(FALSE, None, logged(st, v.logs))
    ELSE Res(TRUE, RuleExpression(Empty, "String", v.val, <<>>), st)

\* BlockParser::to_rule_expr_elem
to_rule_expr_elem(expr_node, ctx, st) ==
    CASE expr_node.name = ".Rule.ArgID" ->
           Res(TRUE, RuleExpression(ctx.pos, "ArgID", expr_node.value, <<>>), st)
      [] expr_node.name = ".Rule.CharClass" ->
           Res(TRUE, RuleExpression(ctx.pos, "CharClass",
                                    <<"[">> \o expr_node.value \o <<"]">>, <<>>), st)
      [] expr_node.name \in {".Rule.Generics", ".Rule.Func"} ->
           expr_with_args(to_args_from(expr_node.args, 1, <<>>, ctx, st), expr_node.name,
                          to_string_vec(expr_node.chain),
                          IF expr_node.name = ".Rule.Generics" THEN "Generics" ELSE "Func",
                          ctx)
      [] expr_node.name = ".Rule.ID" ->
           expr_of_id(resolve_id(to_string_vec(expr_node.chain), ctx.pos, ctx, st),
                      ctx.pos, "ID", <<>>)
      [] expr_node.name = ".Rule.Str" -> expr_of_str(to_string_value(expr_node), st)
      [] expr_node.name = ".Rule.Wildcard" ->
           Res(TRUE, RuleExpression(ctx.pos, "Wildcard", <<".">>, <<>>), st)
      [] OTHER ->
           Res(FALSE, None, logged(st, <<syntax_get_log("SyntaxInternalError", Empty)>>))

\* to_seq_elem: the element is lowered and gets its three decorations
decorated(new_elem, lookahead_kind, loop_count, style) ==
    IF ~new_elem.ok THEN new_elem
    ELSE Res(TRUE, decorate(new_elem.val, lookahead_kind, loop_count, style), new_elem.st)

\* to_seq_elem: the Choice or Expr child of a SeqElem
to_choice_or_expr(body, ctx, st) ==
    IF body.name = ".Rule.Choice" THEN to_rule_choice_elem(body.choice, ctx, st)
    ELSE to_rule_expr_elem(body.expr, ctx, st)

\* to_seq_elem: the body of a SeqElem after its reflection style
with_style(node, lookahead_kind, loop_count, style, ctx, st) ==
    IF ~is_some(node.body) \/ unwrap(node.body).name \notin {".Rule.Choice", ".Rule.Expr"}
    THEN Res(FALSE, None,
             [st EXCEPT !.logs = Append(style.logs,
                            syntax_get_log("SyntaxInvalidSyntaxTreeStructure", Empty))])
    ELSE decorated(to_choice_or_expr(unwrap(node.body), ctx, [st EXCEPT !.logs = style.logs]),
                   lookahead_kind, loop_count, style.style)

\* to_seq_elem: the reflection style of a SeqElem after its loop count
with_loop_count(node, lookahead_kind, loop_count, ctx, st) ==
    IF ~loop_count.ok THEN Res(FALSE, None, logged(st, loop_count.logs))
    ELSE with_style(node, lookahead_kind, loop_count.val,
                    to_ast_reflection_style(node.style, st.logs), ctx, st)

\* to_seq_elem: the loop count of a SeqElem after its lookahead kind
with_lookahead_kind(node, lookahead_kind, ctx, st) ==
    IF ~lookahead_kind.ok THEN Res(FALSE, None, logged(st, lookahead_kind.logs))
    ELSE with_loop_count(node, lookahead_kind.val, to_loop_count(node.loop), ctx, st)

\* to_seq_elem: children.push(new_elem) and the rest of the loop
seq_push(new_elem, sub_elems, i, children, ctx) ==
    IF ~new_elem.ok THEN new_elem
    ELSE to_seq_elem_from(sub_elems, i + 1, Append(children, new_elem.val), ctx, new_elem.st)

\* to_seq_elem: the loop over the SeqElem nodes
to_seq_elem_from(sub_elems, i, children, ctx, st) ==
    IF i > Len(sub_elems) THEN Res(TRUE, RuleGroup("Sequence", children), st)
    ELSE seq_push(with_lookahead_kind(sub_elems[i], to_lookahead_kind(sub_elems[i].lookahead),
                                      ctx, st),
                  sub_elems, i, children, ctx)

----------------------------------------------------------------------------
(* Define commands.                                                        *)

RECURSIVE to_define_cmd_arg_ids_from(_, _, _, _)
to_define_cmd_arg_ids_from(ids, i, args, st) ==
    IF i > Len(ids) THEN Res(TRUE, args, st)
    ELSE to_define_cmd_arg_ids_from(ids, i + 1, Append(args, ids[i]),
            IF contains(args, ids[i])
            THEN logged(st, <<get_log("DuplicatedArgumentID", ids[i])>>)
            ELSE st)

\* the argument ids taken as they are, without the test for a repetition
to_define_cmd_arg_ids_unchecked(ids, st) == Res(TRUE, ids, st)

\* BlockParser::to_define_cmd_arg_ids: the ArgID children of the node
to_define_cmd_arg_ids(ids, st) == to_define_cmd_arg_ids_from(ids, 1, <<>>, st)

\* the Define command of a rule that is named within its file only
define_of_choice_block_local(new_choice, rule_name, generics_args, func_args, ctx) ==
    IF ~new_choice.ok THEN new_choice
    ELSE Res(TRUE,
             [cmd |-> "Define",
              rule |-> Rule(ctx.pos, format2(ctx.block, rule_name), rule_name,
                            generics_args, func_args, new_choice.val)],
             new_choice.st)

\* to_define_cmd: the Define command of the lowered body
define_of_choice(new_choice, rule_name, generics_args, func_args, ctx) ==
    IF ~new_choice.ok THEN new_choice
    ELSE Res(TRUE,
             [cmd |-> "Define",
              rule |-> Rule(ctx.pos, format3(ctx.file, ctx.block, rule_name), rule_name,
                            generics_args, func_args, new_choice.val)],
             new_choice.st)

\* to_define_cmd: the body after the function argument ids
with_func_args(cmd_node, generics_args, func_args, ctx) ==
    define_of_choice(to_rule_choice_elem(cmd_node.choice, ctx, func_args.st),
                     cmd_node.name, generics_args, func_args.val, ctx)

\* to_define_cmd: the function argument ids after the generics argument ids
with_generics_args(cmd_node, generics_args, ctx) ==
    with_func_args(cmd_node, generics_args.val,
                   to_define_cmd_arg_ids(cmd_node.funcs, generics_args.st), ctx)

\* BlockParser::to_define_cmd
to_define_cmd(cmd_node, ctx, st) ==
    with_generics_args(cmd_node,
        to_define_cmd_arg_ids(cmd_node.generics,
            IF ~is_pascal_case(cmd_node.name)
            THEN logged(st, <<get_log("NamingRuleViolation", cmd_node.name)>>)
            ELSE st),
        ctx)

----------------------------------------------------------------------------
(* The syntax trees the model translates.                                  *)

SeqElemNode(lookahead, body, loop, style) ==
    [kind |-> "Node", name |-> ".Rule.SeqElem", lookahead |-> lookahead, body |-> Some(body),
     loop |-> loop, style |-> style]
ExprBody(expr) == [name |-> ".Rule.Expr", expr |-> expr]
SeqNode(sub_elems) == [kind |-> "Node", name |-> ".Rule.Seq", sub_elems |-> sub_elems]
PureChoiceNode(sub_elems) == [kind |-> "Node", name |-> ".Rule.PureChoice", sub_elems |-> sub_elems]
IdNode(chain) == [name |-> ".Rule.ID", chain |-> chain]
StrNode(sub_elems) == [name |-> ".Rule.Str", sub_elems |-> sub_elems]
WildcardNode == [name |-> ".Rule.Wildcard"]
CharLeaf(c) == [kind |-> "Leaf", reflect |-> TRUE, value |-> c]
EscSeqNode(c) == [kind |-> "Node", reflect |-> TRUE, value |-> c]

\* a rule body made of one undecorated expression
OneExpr(expr) == PureChoiceNode(<<SeqNode(<<SeqElemNode(None, ExprBody(expr), None, None)>>)>>)

\* the chains of the ID expressions of the translated files
RefChains ==
    {<<IdR>>, <<IdPrivR>>, <<IdA, IdR>>, <<IdA, IdPrivR>>, <<IdO, IdPrivR>>,
     <<IdF, IdA, IdR, IdR>>}

\* Define nodes: a body of one ID expression; a body of two ID expressions;
\* and a generics list that repeats an argument id
DefineNodes ==
    [name : {IdR}, generics : {<<>>}, funcs : {<<>>},
     choice : {OneExpr(IdNode(t)) : t \in RefChains}
              \cup {PureChoiceNode(<<SeqNode(<<SeqElemNode(None, ExprBody(IdNode(<<IdF, IdA, IdR>>)),
                                                           None, None),
                                               SeqElemNode(None, ExprBody(IdNode(<<IdX>>)),
                                                           None, None)>>)>>)}]
    \cup [name : {IdR}, generics : {<<IdA, IdA>>}, funcs : {<<>>},
          choice : {OneExpr(IdNode(<<IdR>>))}]

\* Use nodes of one, two and three ids, with and without an alias
UseNodes ==
    [chain : {<<IdA>>, <<IdF, IdA, IdR>>}, alias : {None, Some(IdO)}]
    \cup [chain : {<<IdF, IdA>>}, alias : {Some(IdO)}]

StartNodes == [chain : {<<IdR>>, <<IdA, IdR>>, <<IdF, IdA, IdR>>, <<IdF, IdA, IdR, IdR>>}]

\* the id of the single expression of a rule lowered from OneExpr
body_expr(rule) == rule.group.sub_elems[1].sub_elems[1].sub_elems[1]

----------------------------------------------------------------------------
(* BlockParser::get_rule_map and to_block_map as a state machine.          *)

Block(name, block_cmds) == [name |-> name, cmds |-> block_cmds]

RECURSIVE sum_cmds(_, _)
sum_cmds(map, keys) ==
    IF keys = {} THEN 0
    ELSE LET k == CHOOSE k \in keys : TRUE
         IN  Len(map[k].cmds) + sum_cmds(map, keys \ {k})

RECURSIVE sum_maps(_)
sum_maps(maps) ==
    IF maps = <<>> THEN 0 ELSE sum_cmds(Head(maps), DOMAIN Head(maps)) + sum_maps(Tail(maps))

\* the commands translated so far in the run
translated == sum_maps(block_maps) + sum_cmds(block_map, DOMAIN block_map) + Len(cmds)

RECURSIVE count_blocks(_)
count_blocks(maps) ==
    IF maps = <<>> THEN 0 ELSE Cardinality(DOMAIN Head(maps) \ {Empty}) + count_blocks(Tail(maps))

\* the block nodes visited so far in the run
visited == count_blocks(block_maps) + Cardinality(DOMAIN block_map)

Step(op, node, ok, val) == [op |-> op, node |-> node, ok |-> ok, val |-> val]

Init ==
    /\ pc = "files"
    /\ todo = FileAliases
    /\ cons = <<>>
    /\ file_alias_name = Empty
    /\ block_name = Empty
    /\ block_alias_map = EmptyMap
    /\ start_rule_id = None
    /\ appeared_block_ids = EmptyMap
    /\ block_map = EmptyMap
    /\ cmds = <<>>
    /\ rule_names = <<>>
    /\ block_maps = <<>>
    /\ rm_start_rule_id = None
    /\ rule_map = None
    /\ use_src = EmptyMap
    /\ last = Step("init", None, TRUE, None)
    /\ self_token_i = 0
    /\ self_tokens = <<>>

\* get_rule_map: the next entry of the file map gets a fresh BlockParser,
\* its text is parsed and to_block_map starts
NextFile(f) ==
    /\ pc = "files"
    /\ f \in todo
    /\ todo' = todo \ {f}
    /\ file_alias_name' = f
    /\ start_rule_id' = None
    /\ block_name' = Empty
    /\ block_alias_map' = EmptyMap
    /\ block_map' = EmptyMap
    /\ use_src' = EmptyMap
    /\ pc' = "blocks"
    /\ last' = Step("file", f, TRUE, None)
    /\ UNCHANGED <<self_token_i, self_tokens,
                   cons, appeared_block_ids, cmds, rule_names, block_maps,
                   rm_start_rule_id, rule_map>>

\* to_block_map: the head of the loop over the block nodes
BeginBlock(name) ==
    /\ pc = "blocks"
    /\ visited < MaxBlocks
    /\ block_name' = name
    /\ LET warned == IF ~is_pascal_case(name)
                     THEN Append(cons, get_log("NamingRuleViolation", name))
                     ELSE cons
       IN  IF name \in DOMAIN block_map
           THEN /\ cons' = Append(warned, get_log("DuplicatedBlockName", name))
                /\ pc' = "failed"
                /\ last' = Step("block", name, FALSE, None)
                /\ UNCHANGED <<cmds, rule_names>>
           ELSE /\ cons' = warned
                /\ pc' = "cmds"
                /\ cmds' = <<>>
                /\ rule_names' = <<>>
                /\ last' = Step("block", name, TRUE, None)
    /\ UNCHANGED <<self_token_i, self_tokens,
                   todo, file_alias_name, block_alias_map, start_rule_id,
                   appeared_block_ids, block_map, block_maps, rm_start_rule_id,
                   rule_map, use_src>>

\* the state a lowering function reads, and the state it writes
ctx == [alias_map |-> block_alias_map, file |-> file_alias_name, block |-> block_name,
        pos |-> <<file_alias_name, block_name, Len(cmds) + 1>>]
st == [logs |-> cons, appeared |-> appeared_block_ids]

\* the block test left out
start_outside_main_unchecked(block) == FALSE

\* to_block_cmd, ".Block.StartCmd": the block test
start_outside_main(block) == block # Main

\* the start-rule id kept for every file
start_is_recorded_anywhere(file) == TRUE

\* to_block_cmd, ".Block.StartCmd": the start-rule id is kept for the top-level file only
start_is_recorded(file) == file = Empty

\* the test for a recorded start-rule id left out
start_is_duplicated_unchecked(start) == FALSE

\* to_block_cmd, ".Block.StartCmd": a start-rule id is already recorded
start_is_duplicated(start) == is_some(start)

\* to_block_cmd, ".Block.StartCmd"
to_block_cmd_start(cmd_node, file, block, start) ==
    LET start_cmd == to_start_cmd(file, cmd_node)
        c == start_cmd.val
    IN  IF ~start_cmd.ok THEN [ok |-> FALSE, val |-> None, logs |-> start_cmd.logs, start |-> start]
        ELSE IF start_outside_main(block)
        THEN [ok |-> FALSE, val |-> None, start |-> start,
              logs |-> <<get_log("StartCommandOutsideMainBlock", Empty)>>]
        ELSE IF start_is_recorded(file)
        THEN IF start_is_duplicated(start)
             THEN [ok |-> FALSE, val |-> None, start |-> start,
                   logs |-> <<get_log("DuplicatedStartCommand", Empty)>>]
             ELSE [ok |-> TRUE, val |-> c, logs |-> <<>>,
                   start |-> Some(format3(c.file_alias_name, c.block_name, c.rule_name))]
        ELSE [ok |-> TRUE, val |-> c, logs |-> <<>>, start |-> start]

\* to_block_map: one ".Block.StartCmd" command of the block
BlockStartCmd(cmd_node) ==
    /\ pc = "cmds"
    /\ LET r == to_block_cmd_start(cmd_node, file_alias_name, block_name, start_rule_id)
       IN  /\ cons' = cons \o r.logs
           /\ start_rule_id' = r.start
           /\ cmds' = IF r.ok THEN Append(cmds, r.val) ELSE cmds
           /\ pc' = IF r.ok THEN "cmds" ELSE "failed"
           /\ last' = Step("start", cmd_node, r.ok, r.val)
    /\ UNCHANGED <<self_token_i, self_tokens,
                   todo, file_alias_name, block_name, block_alias_map, appeared_block_ids,
                   block_map, rule_names, block_maps, rm_start_rule_id, rule_map, use_src>>

\* to_block_cmd, ".Block.UseCmd": the entry put in the block-alias table
use_target(use_cmd) == format2(use_cmd.file_alias_name, use_cmd.block_name)

\* the block-alias table left as it is by a Use command
alias_map_without(alias_map, use_cmd) == alias_map

\* the block-alias table that keeps the mapping an alias already has
alias_map_with_first(alias_map, use_cmd) ==
    IF use_cmd.block_alias_name \in DOMAIN alias_map THEN alias_map
    ELSE insert(alias_map, use_cmd.block_alias_name, use_target(use_cmd))

\* to_block_cmd, ".Block.UseCmd": self.block_alias_map.insert(block_alias_name, ...)
alias_map_with(alias_map, use_cmd) ==
    insert(alias_map, use_cmd.block_alias_name, use_target(use_cmd))

\* to_block_map: one ".Block.UseCmd" command of the block
BlockUseCmd(cmd_node) ==
    /\ pc = "cmds"
    /\ LET r == to_use_cmd(file_alias_name, cmd_node)
       IN  /\ cons' = cons \o r.logs
           /\ block_alias_map' = IF r.ok THEN alias_map_with(block_alias_map, r.val)
                                 ELSE block_alias_map
           /\ use_src' = IF r.ok THEN insert(use_src, r.val.block_alias_name, cmd_node)
                         ELSE use_src
           /\ cmds' = IF r.ok THEN Append(cmds, r.val) ELSE cmds
           /\ pc' = IF r.ok THEN "cmds" ELSE "failed"
           /\ last' = Step("use", cmd_node, r.ok, r.val)
    /\ UNCHANGED <<self_token_i, self_tokens,
                   todo, file_alias_name, block_name, start_rule_id, appeared_block_ids,
                   block_map, rule_names, block_maps, rm_start_rule_id, rule_map>>

\* the test for a duplicated rule name left out
is_duplicated_rule_name_unchecked(names, rule) == FALSE

\* to_block_map: the name of the rule is among the rule names of the block
is_duplicated_rule_name(names, rule) == contains(names, rule.name)

\* to_block_map: one ".Block.DefineCmd" command of the block, with the
\* test for a duplicated rule name
BlockDefineCmd(cmd_node) ==
    /\ pc = "cmds"
    /\ LET r == to_define_cmd(cmd_node, ctx, st)
           dup == r.ok /\ is_duplicated_rule_name(rule_names, r.val.rule)
       IN  /\ cons' = IF dup
                      THEN Append(r.st.logs, get_log("DuplicatedRuleName", r.val.rule.name))
                      ELSE r.st.logs
           /\ appeared_block_ids' = r.st.appeared
           /\ rule_names' = IF r.ok /\ ~dup THEN Append(rule_names, r.val.rule.name)
                            ELSE rule_names
           /\ cmds' = IF r.ok /\ ~dup THEN Append(cmds, r.val) ELSE cmds
           /\ pc' = IF r.ok /\ ~dup THEN "cmds" ELSE "failed"
           /\ last' = Step("define", cmd_node, r.ok, r.val)
    /\ UNCHANGED <<self_token_i, self_tokens,
                   todo, file_alias_name, block_name, block_alias_map, start_rule_id,
                   block_map, block_maps, rm_start_rule_id, rule_map, use_src>>

\* to_block_map: one ".Block.CommentCmd" command of the block
BlockCommentCmd ==
    /\ pc = "cmds"
    /\ cmds' = Append(cmds, [cmd |-> "Comment", value |-> Empty])
    /\ last' = Step("comment", None, TRUE, None)
    /\ UNCHANGED <<self_token_i, self_tokens,
                   pc, todo, cons, file_alias_name, block_name, block_alias_map,
                   start_rule_id, appeared_block_ids, block_map, rule_names, block_maps,
                   rm_start_rule_id, rule_map, use_src>>

\* the end of a block that keeps the aliases for the blocks that follow
EndBlock_keeping_aliases ==
    /\ pc = "cmds"
    /\ block_map' = insert(block_map, block_name, Block(block_name, cmds))
    /\ cmds' = <<>>
    /\ rule_names' = <<>>
    /\ pc' = "blocks"
    /\ last' = Step("endblock", block_name, TRUE, None)
    /\ UNCHANGED <<self_token_i, self_tokens,
                   todo, cons, file_alias_name, block_name, block_alias_map, start_rule_id,
                   appeared_block_ids, block_maps, rm_start_rule_id, rule_map, use_src>>

\* to_block_map: the end of a block, which clears the block-alias table
EndBlock ==
    /\ pc = "cmds"
    /\ block_map' = insert(block_map, block_name, Block(block_name, cmds))
    /\ block_alias_map' = EmptyMap
    /\ use_src' = EmptyMap
    /\ cmds' = <<>>
    /\ rule_names' = <<>>
    /\ pc' = "blocks"
    /\ last' = Step("endblock", block_name, TRUE, None)
    /\ UNCHANGED <<self_token_i, self_tokens,
                   todo, cons, file_alias_name, block_name, start_rule_id,
                   appeared_block_ids, block_maps, rm_start_rule_id, rule_map>>

\* to_block_map: the block node has no child that holds its commands;
\* get_node_child_at fails and leaves its diagnostic in the sink
BlockCmdsMissing ==
    /\ pc = "cmds"
    /\ cmds = <<>>
    /\ cons' = Append(cons, syntax_get_log("SyntaxInvalidSyntaxTreeStructure", Empty))
    /\ pc' = "nocmds"
    /\ last' = Step("nocmds", block_name, FALSE, None)
    /\ UNCHANGED <<self_token_i, self_tokens,
                   todo, file_alias_name, block_name, block_alias_map, start_rule_id,
                   appeared_block_ids, block_map, cmds, rule_names, block_maps,
                   rm_start_rule_id, rule_map, use_src>>

\* to_block_map, the Err arm of the commands: the last diagnostic of the
\* sink is popped and the block is put into the map without commands
BlockPopLog ==
    /\ pc = "nocmds"
    /\ cons' = pop_log(cons)
    /\ block_map' = insert(block_map, block_name, Block(block_name, cmds))
    /\ block_alias_map' = EmptyMap
    /\ use_src' = EmptyMap
    /\ pc' = "blocks"
    /\ last' = Step("poplog", block_name, TRUE, None)
    /\ UNCHANGED <<self_token_i, self_tokens,
                   todo, file_alias_name, block_name, start_rule_id, appeared_block_ids,
                   cmds, rule_names, block_maps, rm_start_rule_id, rule_map>>

\* the start-rule id of every file taken over
is_top_level_file_unchecked(file) == TRUE

\* get_rule_map: block_parser.file_alias_name == ""
is_top_level_file(file) == file = Empty

\* to_block_map: the root node has no child that holds the blocks;
\* get_node_child_at fails and leaves its diagnostic in the sink, and the
\* block map is returned as it is, empty
FileBlocksMissing ==
    /\ pc = "blocks"
    /\ block_map = EmptyMap
    /\ cons' = Append(cons, syntax_get_log("SyntaxInvalidSyntaxTreeStructure", Empty))
    /\ block_maps' = Append(block_maps, block_map)
    /\ rm_start_rule_id' = IF is_top_level_file(file_alias_name)
                         THEN start_rule_id ELSE rm_start_rule_id
    /\ pc' = "files"
    /\ last' = Step("noblocks", file_alias_name, TRUE, None)
    /\ UNCHANGED <<self_token_i, self_tokens,
                   todo, file_alias_name, block_name, block_alias_map, start_rule_id,
                   appeared_block_ids, block_map, cmds, rule_names, rule_map, use_src>>

\* to_block_map returns the block map with the synthetic Main block, and
\* get_rule_map keeps the start-rule id of the top-level file
EndFile ==
    /\ pc = "blocks"
    /\ block_maps' = Append(block_maps, insert(block_map, Empty, Block(Main, <<>>)))
    /\ block_map' = EmptyMap
    /\ rm_start_rule_id' = IF is_top_level_file(file_alias_name)
                         THEN start_rule_id ELSE rm_start_rule_id
    /\ pc' = "files"
    /\ last' = Step("endfile", file_alias_name, TRUE, None)
    /\ UNCHANGED <<self_token_i, self_tokens,
                   todo, cons, file_alias_name, block_name, block_alias_map, start_rule_id,
                   appeared_block_ids, cmds, rule_names, rule_map, use_src>>

\* the rules of all Define commands of the block maps
defined_rules(maps) ==
    UNION {UNION {{maps[i][k].cmds[j].rule :
                      j \in {j \in 1..Len(maps[i][k].cmds) : maps[i][k].cmds[j].cmd = "Define"}} :
                  k \in DOMAIN maps[i]} :
           i \in 1..Len(maps)}

\* RuleMap::new (rule.rs): the catalog keyed by fully-qualified rule id
RuleMapNew(maps, id) ==
    [rule_map |-> [n \in {r.name : r \in defined_rules(maps)} |->
                       CHOOSE r \in defined_rules(maps) : r.name = n],
     start_rule_id |-> id]

Perms(S) == {p \in [1..Cardinality(S) -> S] : \A i, j \in 1..Cardinality(S) : p[i] = p[j] => i = j}

\* the first id that the catalog lacks, and no other
unknown_rule_ids_first(appeared, catalog) ==
    IF \A id \in DOMAIN appeared : id \in DOMAIN catalog THEN {}
    ELSE {CHOOSE id \in DOMAIN appeared : id \notin DOMAIN catalog}

\* get_rule_map: the appeared ids that are no key of the catalog
unknown_rule_ids(appeared, catalog) == {id \in DOMAIN appeared : id \notin DOMAIN catalog}

\* get_rule_map: the catalog is built and every appeared id is looked up
Assemble ==
    /\ pc = "files"
    /\ todo = {}
    /\ IF ~is_some(rm_start_rule_id)
       THEN /\ cons' = Append(cons, get_log("NoStartCommandInMainBlock", Empty))
            /\ pc' = "failed"
            /\ rule_map' = None
            /\ last' = Step("assemble", None, FALSE, None)
       ELSE LET new_map == RuleMapNew(block_maps, unwrap(rm_start_rule_id))
                unknown == unknown_rule_ids(appeared_block_ids, new_map.rule_map)
            IN  \E order \in Perms(unknown) :
                    /\ cons' = cons \o [i \in 1..Cardinality(unknown) |->
                                           syntax_get_log("UnknownRuleID", order[i])]
                    /\ pc' = IF unknown = {} THEN "done" ELSE "failed"
                    /\ rule_map' = IF unknown = {} THEN Some(new_map) ELSE None
                    /\ last' = Step("assemble", unwrap(rm_start_rule_id), unknown = {}, None)
    /\ UNCHANGED <<self_token_i, self_tokens,
                   todo, file_alias_name, block_name, block_alias_map, start_rule_id,
                   appeared_block_ids, block_map, cmds, rule_names, block_maps,
                   rm_start_rule_id, use_src>>

Next ==
    \/ \E f \in FileAliases : NextFile(f)
    \/ \E name \in BlockNames : BeginBlock(name)
    \/ pc = "cmds" /\ translated < MaxCmds
          /\ \E cmd_node \in StartNodes : BlockStartCmd(cmd_node)
    \/ pc = "cmds" /\ translated < MaxCmds
          /\ \E cmd_node \in UseNodes : BlockUseCmd(cmd_node)
    \/ pc = "cmds" /\ translated < MaxCmds
          /\ \E cmd_node \in DefineNodes : BlockDefineCmd(cmd_node)
    \/ pc = "cmds" /\ translated < MaxCmds /\ BlockCommentCmd
    \/ BlockCmdsMissing
    \/ BlockPopLog
    \/ EndBlock
    \/ FileBlocksMissing
    \/ EndFile
    \/ Assemble

Spec == Init /\ [][Next]_vars

----------------------------------------------------------------------------
(* The commands of one block that introduce and use one alias: Use         *)
(* commands `use A as O` and `use f.A as O`, and Define commands whose     *)
(* body is the reference O.R.                                              *)

MaxAliasCmds == 3

AliasUseNodes == [chain : {<<IdA>>, <<IdF, IdA>>}, alias : {Some(IdO)}]

AliasDefineNodes ==
    [name : {IdR, IdX}, generics : {<<>>}, funcs : {<<>>},
     choice : {OneExpr(IdNode(<<IdO, IdR>>))}]

NextAlias ==
    \/ \E f \in FileAliases : NextFile(f)
    \/ \E name \in BlockNames : BeginBlock(name)
    \/ pc = "cmds" /\ Len(cmds) < MaxAliasCmds
          /\ \E cmd_node \in AliasUseNodes : BlockUseCmd(cmd_node)
    \/ pc = "cmds" /\ Len(cmds) < MaxAliasCmds
          /\ \E cmd_node \in AliasDefineNodes : BlockDefineCmd(cmd_node)

SpecAlias == Init /\ [][NextAlias]_vars

----------------------------------------------------------------------------
(* Lowering functions applied to one input: a Seq whose elements carry     *)
(* loop nodes, and a Str node.                                             *)

RECURSIVE numeral(_)
\* the digits of a number, as written in a Num
numeral(n) == IF n < 10 THEN <<Digits[n + 1]>> ELSE numeral(n \div 10) \o <<Digits[(n % 10) + 1]>>

NumChildren == {None} \cup {Some(numeral(n)) : n \in 0..MaxNum}

LoopNodes ==
    {None}
        \cup {Some([kind |-> "Leaf", value |-> v, min |-> None, max |-> None]) :
                 v \in {"?", "*", "+"}}
        \cup {Some([kind |-> "Node", value |-> "", min |-> a, max |-> b]) :
                 a \in NumChildren, b \in NumChildren}

RECURSIVE SeqsUpTo(_, _)
\* the non-empty sequences over S of at most n elements
SeqsUpTo(S, n) ==
    IF n = 0 THEN {}
    ELSE {<<x>> : x \in S} \cup {Append(q, x) : q \in SeqsUpTo(S, n - 1), x \in S}

LoopSeqNodes ==
    {SeqNode([i \in 1..Len(loops) |->
                 SeqElemNode(None, ExprBody(WildcardNode), loops[i], None)]) :
        loops \in SeqsUpTo(LoopNodes, MaxSeqElems)}

StrElems ==
    {EscSeqNode(c) : c \in {"\\", "\"", "n", "t", "z", "q"}}
        \cup {CharLeaf("a"), CharLeaf("n"), [kind |-> "Leaf", reflect |-> FALSE, value |-> "\""]}

StrNodes == {StrNode(e) : e \in SeqsUpTo(StrElems, MaxStrLen) \cup {<<>>}}

InitLower ==
    /\ pc = "lower"
    /\ todo = {}
    /\ cons = <<>>
    /\ file_alias_name = Empty
    /\ block_name \in BlockNames
    /\ block_alias_map = EmptyMap
    /\ start_rule_id = None
    /\ appeared_block_ids = EmptyMap
    /\ block_map = EmptyMap
    /\ cmds = <<>>
    /\ rule_names = <<>>
    /\ block_maps = <<>>
    /\ rm_start_rule_id = None
    /\ rule_map = None
    /\ use_src = EmptyMap
    /\ last = Step("init", None, TRUE, None)
    /\ self_token_i = 0
    /\ self_tokens = <<>>

Lowered(op, node, r) ==
    /\ cons' = r.st.logs
    /\ appeared_block_ids' = r.st.appeared
    /\ pc' = "lowered"
    /\ last' = Step(op, node, r.ok, r.val)
    /\ UNCHANGED <<self_token_i, self_tokens,
                   todo, file_alias_name, block_name, block_alias_map, start_rule_id,
                   block_map, cmds, rule_names, block_maps, rm_start_rule_id, rule_map,
                   use_src>>

\* to_seq_elem applied to a Seq node
LowerSeq(seq_node) ==
    /\ pc = "lower"
    /\ Lowered("to_seq_elem", seq_node, to_seq_elem(seq_node, ctx, st))

\* to_rule_expr_elem applied to an Expr node holding a Str node
LowerStr(str_node) ==
    /\ pc = "lower"
    /\ Lowered("to_string_value", str_node, to_rule_expr_elem(str_node, ctx, st))

NextLoop == \E seq_node \in LoopSeqNodes : LowerSeq(seq_node)

SpecLoop == InitLower /\ [][NextLoop]_vars

NextStr == \E str_node \in StrNodes : LowerStr(str_node)

SpecStr == InitLower /\ [][NextStr]_vars

----------------------------------------------------------------------------
(* to_rule_choice_elem applied to a PureChoice node: its reflectable       *)
(* children are Seq nodes separated by the leaves ":" and ",", and the     *)
(* grammar of PureChoice lets every separator be either of the two.        *)

SepLeaf(v) == [kind |-> "Leaf", value |-> v]

\* the Seq nodes of the alternatives
AltSeqs ==
    {SeqNode(<<SeqElemNode(None, ExprBody(e), None, None)>>) :
        e \in {WildcardNode, StrNode(<<CharLeaf("a")>>), IdNode(<<IdR>>)}}

RECURSIVE AltsOf(_)
\* the children of a PureChoice of exactly n alternatives
AltsOf(n) ==
    IF n = 1 THEN {<<s>> : s \in AltSeqs}
    ELSE {q \o <<SepLeaf(v), s>> : q \in AltsOf(n - 1), v \in {":", ","}, s \in AltSeqs}

ChoiceNodes == {PureChoiceNode(e) : e \in UNION {AltsOf(n) : n \in 1..MaxAlts}}

\* to_rule_choice_elem applied to a PureChoice node
LowerChoice(choice_node) ==
    /\ pc = "lower"
    /\ Lowered("to_rule_choice_elem", choice_node, to_rule_choice_elem(choice_node, ctx, st))

NextChoice == \E choice_node \in ChoiceNodes : LowerChoice(choice_node)

SpecChoice == InitLower /\ [][NextChoice]_vars

----------------------------------------------------------------------------
(* to_rule_expr_elem applied to a Generics or Func node: the ChainID child *)
(* and the InstantPureChoice children, at least one by the grammar.        *)

\* the chains of the Generics and Func expressions
FuncChains ==
    {<<<<"J", "O", "I", "N">>>>, <<IdR>>, <<IdPrivR>>, <<IdA, <<"J", "O", "I", "N">>>>,
     <<IdA, IdR>>, <<IdF, IdA, <<"J", "O", "I", "N">>>>, <<IdF, IdA, IdR>>,
     <<IdF, IdA, IdR, IdR>>}

\* the argument groups of the Generics and Func expressions
FuncArgs ==
    {OneExpr(e) : e \in {WildcardNode, IdNode(<<IdX>>), IdNode(<<<<"J", "O", "I", "N">>>>)}}

FuncNodes ==
    [name : {".Rule.Generics", ".Rule.Func"}, chain : FuncChains,
     args : {<<a>> : a \in FuncArgs} \cup {<<a, b>> : a \in FuncArgs, b \in FuncArgs}]

\* to_rule_expr_elem applied to a Generics or Func node
LowerFunc(expr_node) ==
    /\ pc = "lower"
    /\ Lowered("to_rule_expr_elem", expr_node, to_rule_expr_elem(expr_node, ctx, st))

NextFunc == \E expr_node \in FuncNodes : LowerFunc(expr_node)

SpecFunc == InitLower /\ [][NextFunc]_vars

----------------------------------------------------------------------------
(* to_define_cmd applied to a Define node with generics and function       *)
(* argument ids: the ArgID children of DefineCmdGenericsIDs and of         *)
(* DefineCmdFuncIDs, <<>> where the node is absent.                        *)

MaxArgs == 3

ArgIDs == {IdA, IdB}

ArgDefineNodes ==
    [name : {IdR}, generics : SeqsUpTo(ArgIDs, MaxArgs) \cup {<<>>},
     funcs : SeqsUpTo(ArgIDs, MaxArgs) \cup {<<>>}, choice : {OneExpr(IdNode(<<IdR>>))}]

\* to_define_cmd applied to a Define node
LowerDefine(cmd_node) ==
    /\ pc = "lower"
    /\ Lowered("to_define_cmd", cmd_node, to_define_cmd(cmd_node, ctx, st))

NextDefine == \E cmd_node \in ArgDefineNodes : LowerDefine(cmd_node)

SpecDefine == InitLower /\ [][NextDefine]_vars

----------------------------------------------------------------------------
(* The token parser of blockparser.rs.  A token is a BlockToken of the     *)
(* block lexer; token_i counts from 1 here.  A function of the parser      *)
(* gives its result together with the token_i it leaves.                   *)

BlockToken(line, kind, value) == [line |-> line, kind |-> kind, value |-> value]

is_symbol(token, value) == token.kind = "Symbol" /\ token.value = <<value>>

\* Ok(v), and the position of the parser after it
Parsed(v, token_i) == [ok |-> TRUE, val |-> v, token_i |-> token_i]

\* Err(BlockParseError::kind(args))
BlockParseError(kind, args) ==
    [ok |-> FALSE, val |-> [kind |-> kind, args |-> args], token_i |-> 0]

\* get_command_from_data, "use": the optional `as` ID from the argument k on
use_alias_from_data(line_num, pragma_args, k, file, block, token_i) ==
    IF k > Len(pragma_args)
    THEN Parsed(Some([cmd |-> "Use", line |-> line_num, file_alias_name |-> file,
                      block_name |-> block, block_alias_name |-> block]), token_i)
    ELSE IF pragma_args[k].kind # "ID" \/ pragma_args[k].value # <<"a", "s">>
    THEN BlockParseError("UnexpectedToken", <<line_num, pragma_args[k].value, "'as'">>)
    ELSE IF k + 1 > Len(pragma_args)
    THEN BlockParseError("ExpectedToken", <<line_num, "ID">>)
    ELSE IF pragma_args[k + 1].kind # "ID"
    THEN BlockParseError("UnexpectedToken", <<line_num, pragma_args[k + 1].value, "ID">>)
    ELSE Parsed(Some([cmd |-> "Use", line |-> line_num, file_alias_name |-> file,
                      block_name |-> block,
                      block_alias_name |-> pragma_args[k + 1].value]), token_i)

\* get_command_from_data: the command of a pragma name and its arguments.
\* The tokens of the model hold no pragma named define.
get_command_from_data(file, line_num, pragma_name, pragma_args, token_i) ==
    CASE pragma_name = <<"s", "t", "a", "r", "t">> ->
            IF Len(pragma_args) = 0
            THEN BlockParseError("UnexpectedToken", <<line_num, <<",">>, "pragma argument">>)
            ELSE IF Len(pragma_args) # 3
            THEN BlockParseError("UnexpectedToken", <<line_num, pragma_args[1].value, "','">>)
            ELSE IF pragma_args[1].kind # "ID"
            THEN BlockParseError("UnexpectedToken", <<line_num, pragma_args[1].value, "ID">>)
            ELSE IF ~is_symbol(pragma_args[2], ".")
            THEN BlockParseError("UnexpectedToken", <<line_num, pragma_args[2].value, "'.'">>)
            ELSE IF pragma_args[3].kind # "ID"
            THEN BlockParseError("UnexpectedToken", <<line_num, pragma_args[2].value, "ID">>)
            ELSE Parsed(Some([cmd |-> "Start", line |-> line_num, file_alias_name |-> file,
                              block_name |-> pragma_args[1].value,
                              rule_name |-> pragma_args[3].value]), token_i)
      [] pragma_name = <<"u", "s", "e">> ->
            IF Len(pragma_args) = 0
            THEN BlockParseError("UnexpectedToken", <<line_num, <<",">>, "pragma argument">>)
            ELSE IF pragma_args[1].kind # "ID"
            THEN BlockParseError("UnexpectedToken", <<line_num, pragma_args[1].value, "ID">>)
            ELSE IF Len(pragma_args) >= 2 /\ is_symbol(pragma_args[2], ".")
            THEN IF Len(pragma_args) >= 3
                 THEN IF pragma_args[3].kind # "ID"
                      THEN BlockParseError("UnexpectedToken",
                                           <<line_num, pragma_args[3].value, "ID">>)
                      ELSE use_alias_from_data(line_num, pragma_args, 4, pragma_args[1].value,
                                               pragma_args[3].value, token_i)
                 ELSE use_alias_from_data(line_num, pragma_args, 3, file,
                                          pragma_args[1].value, token_i)
            ELSE use_alias_from_data(line_num, pragma_args, 2, file, pragma_args[1].value,
                                     token_i)
      [] pragma_name \notin {<<"d", "e", "f", "i", "n", "e">>, <<"s", "t", "a", "r", "t">>,
                             <<"u", "s", "e">>} ->
            BlockParseError("UnknownPragmaName", <<line_num, pragma_name>>)

RECURSIVE pragma_from(_, _, _, _, _, _)
\* get_next_command_content: the loop over the tokens after a `+`; the
\* pragma name <<"\\0">> is the unset one.  When the tokens end the loop is
\* left and the function falls through to its last return.
pragma_from(tokens, i, each_token, pragma_name, pragma_args, file) ==
    IF i > Len(tokens)
    THEN BlockParseError("UnexpectedToken",
                         <<each_token.line, each_token.value, "'+' and ID">>)
    ELSE IF tokens[i].kind = "Space"
    THEN pragma_from(tokens, i + 1, each_token, pragma_name, pragma_args, file)
    ELSE IF pragma_name = <<"\\0">>
    THEN IF tokens[i].kind = "ID"
         THEN pragma_from(tokens, i + 1, each_token, tokens[i].value, pragma_args, file)
         ELSE BlockParseError("UnexpectedToken",
                              <<tokens[i].line, tokens[i].value, "pragma name">>)
    ELSE IF tokens[i].kind \in {"ID", "String"} \/ is_symbol(tokens[i], ".")
    THEN pragma_from(tokens, i + 1, each_token, pragma_name,
                     Append(pragma_args, tokens[i]), file)
    ELSE IF is_symbol(tokens[i], ",")
    THEN get_command_from_data(file, tokens[i].line, pragma_name, pragma_args, i + 1)
    ELSE BlockParseError("UnknownSyntax", <<each_token.line, each_token.value>>)

\* get_next_command_content: a rule definition from the token after its
\* name on, up to the test for `<`.  The tokens of the model hold no `<`.
define_from(tokens, i, line_num) ==
    CASE i > Len(tokens) ->
            BlockParseError("UnexpectedEOF", <<line_num, "' '">>)
      [] i <= Len(tokens) /\ tokens[i].kind = "Space" /\ i + 1 > Len(tokens) ->
            BlockParseError("UnexpectedEOF", <<tokens[i].line, "'<'">>)
      [] i <= Len(tokens) /\ tokens[i].kind = "Space" /\ i + 1 <= Len(tokens)
            /\ ~is_symbol(tokens[i + 1], "<") ->
            BlockParseError("UnexpectedToken", <<tokens[i].line, tokens[i + 1].value, "'<'">>)
      [] i <= Len(tokens) /\ tokens[i].kind # "Space" /\ ~is_symbol(tokens[i], "<") ->
            BlockParseError("UnexpectedToken", <<line_num, tokens[i].value, "'<'">>)

RECURSIVE get_next_command_content(_, _, _)
\* get_next_command_content: the next command of the block, None at the
\* end of the block and at the end of the tokens
get_next_command_content(tokens, i, file) ==
    IF i > Len(tokens) THEN Parsed(None, i)
    ELSE IF tokens[i].kind = "Space" THEN get_next_command_content(tokens, i + 1, file)
    ELSE IF is_symbol(tokens[i], "}") THEN Parsed(None, i + 1)
    ELSE IF is_symbol(tokens[i], "+")
    THEN pragma_from(tokens, i + 1, tokens[i], <<"\\0">>, <<>>, file)
    ELSE IF tokens[i].kind = "ID" THEN define_from(tokens, i + 1, tokens[i].line)
    ELSE BlockParseError("UnexpectedToken",
                         <<tokens[i].line, tokens[i].value, "'+' and ID">>)

RECURSIVE get_commands(_, _, _, _)
\* get_commands: the commands up to the first None, new_cmd the last
\* result of get_next_command_content
get_commands(tokens, block_cmds, new_cmd, file) ==
    IF ~new_cmd.ok THEN new_cmd
    ELSE IF ~is_some(new_cmd.val) THEN Parsed(block_cmds, new_cmd.token_i)
    ELSE get_commands(tokens, Append(block_cmds, unwrap(new_cmd.val)),
                      get_next_command_content(tokens, new_cmd.token_i, file), file)

\* get_block_content: Block::new(block_name, cmds) of the commands
get_block_content(name, parsed_cmds) ==
    IF ~parsed_cmds.ok THEN parsed_cmds
    ELSE Parsed(Block(name, parsed_cmds.val), parsed_cmds.token_i)

\* the test for a duplicated block name left out
is_duplicated_block_name_unchecked(map, name) == FALSE

\* get_blocks: block_map.contains_key(&block_name)
is_duplicated_block_name(map, name) == name \in DOMAIN map

RECURSIVE get_blocks(_, _, _, _)

\* get_blocks: the block read is tested and put into the block map
block_insert(tokens, each_token, map, block, file) ==
    IF ~block.ok THEN block
    ELSE IF block.val.name = Empty
    THEN BlockParseError("UnexpectedToken", <<each_token.line, <<"]">>, "ID">>)
    ELSE IF is_duplicated_block_name(map, block.val.name)
    THEN BlockParseError("DuplicatedBlockName", <<each_token.line, block.val.name>>)
    ELSE get_blocks(tokens, block.token_i, insert(map, block.val.name, block.val), file)

\* get_blocks: a block from the token after its name and the space on
block_from(tokens, i, each_token, map, file) ==
    IF i > Len(tokens) \/ ~is_symbol(tokens[i], "{")
    THEN BlockParseError("UnknownToken", <<each_token.line, each_token.value>>)
    ELSE block_insert(tokens, each_token, map,
                      get_block_content(SubSeq(each_token.value, 2, Len(each_token.value) - 1),
                                        get_commands(tokens, <<>>,
                                                     get_next_command_content(tokens, i + 1, file),
                                                     file)),
                      file)

\* get_blocks: the loop over the tokens of the file
get_blocks(tokens, i, map, file) ==
    IF i > Len(tokens) THEN Parsed(map, i)
    ELSE IF tokens[i].kind = "Space" THEN get_blocks(tokens, i + 1, map, file)
    ELSE IF tokens[i].kind = "StringInBracket"
    THEN IF i + 1 > Len(tokens)
         THEN BlockParseError("UnknownToken", <<tokens[i].line, tokens[i].value>>)
         ELSE IF tokens[i + 1].kind = "Space"
         THEN block_from(tokens, i + 2, tokens[i], map, file)
         ELSE block_from(tokens, i + 1, tokens[i], map, file)
    ELSE BlockParseError("ExpectedBlockDef", <<tokens[i].line>>)

\* BlockParser::new
NewBlockParser == [file_alias_name |-> Empty, token_i |-> 0, tokens |-> <<>>]

\* parse that reads on from the position the instance was left at
parse_keeping_position(self, file, tokens) ==
    get_blocks(tokens, self.token_i + 1, EmptyMap, file)

\* BlockParser::parse: the fields of the instance are set anew, token_i to
\* 0, and the blocks are read
parse(self, file, tokens) == get_blocks(tokens, 0 + 1, EmptyMap, file)

(* The token sequences parsed: up to MaxTokBlocks pieces, each a block     *)
(* definition, whole or cut short, or a token outside of one.  The tokens  *)
(* of a piece carry the number of the piece as their line.                 *)
MaxTokBlocks == 2

BlockNameTokens(line) ==
    {BlockToken(line, "StringInBracket", v) : v \in {<<"[", "A", "]">>, <<"[", "B", "]">>}}

\* the tokens of the commands of a block
CommandTokens(line) ==
    {<<>>,
     <<BlockToken(line, "Symbol", <<"+">>), BlockToken(line, "ID", <<"u", "s", "e">>),
       BlockToken(line, "Space", <<" ">>), BlockToken(line, "ID", <<"B">>),
       BlockToken(line, "Symbol", <<",">>)>>,
     <<BlockToken(line, "Symbol", <<"+">>), BlockToken(line, "ID", <<"s", "t", "a", "r", "t">>),
       BlockToken(line, "ID", <<"A">>), BlockToken(line, "Symbol", <<".">>),
       BlockToken(line, "ID", <<"R">>), BlockToken(line, "Symbol", <<",">>)>>,
     <<BlockToken(line, "Symbol", <<"+">>), BlockToken(line, "ID", <<"R">>),
       BlockToken(line, "Symbol", <<",">>)>>,
     <<BlockToken(line, "Symbol", <<"+">>), BlockToken(line, "ID", <<"u", "s", "e">>),
       BlockToken(line, "ID", <<"B">>)>>,
     <<BlockToken(line, "ID", <<"R">>), BlockToken(line, "Space", <<" ">>)>>}

\* the tokens of a block whose tokens end inside a command: after a rule
\* name, after the `+` of a pragma, after the pragma name, and after a
\* pragma argument
CutShortTokens(line) ==
    {<<BlockToken(line, "ID", <<"R">>)>>,
     <<BlockToken(line, "Symbol", <<"+">>)>>,
     <<BlockToken(line, "Symbol", <<"+">>), BlockToken(line, "ID", <<"u", "s", "e">>)>>,
     <<BlockToken(line, "Symbol", <<"+">>), BlockToken(line, "ID", <<"u", "s", "e">>),
       BlockToken(line, "Space", <<" ">>), BlockToken(line, "ID", <<"B">>)>>}

\* a block definition, whole, nameless or cut short, or a token outside of one
TokenPieces(line) ==
    {<<name, BlockToken(line, "Symbol", <<"{">>)>> \o body
              \o <<BlockToken(line, "Symbol", <<"}">>)>> :
        name \in BlockNameTokens(line), body \in CommandTokens(line)}
    \cup {<<BlockToken(line, "StringInBracket", <<"[", "]">>),
            BlockToken(line, "Symbol", <<"{">>), BlockToken(line, "Symbol", <<"}">>)>>,
          <<BlockToken(line, "StringInBracket", <<"[", "A", "]">>),
            BlockToken(line, "Space", <<" ">>), BlockToken(line, "Symbol", <<"{">>),
            BlockToken(line, "Symbol", <<"}">>)>>,
          <<BlockToken(line, "StringInBracket", <<"[", "A", "]">>),
            BlockToken(line, "Symbol", <<"{">>)>>,
          <<BlockToken(line, "StringInBracket", <<"[", "A", "]">>)>>,
          <<BlockToken(line, "Space", <<" ">>)>>,
          <<BlockToken(line, "Symbol", <<"}">>)>>}
    \cup {<<BlockToken(line, "StringInBracket", <<"[", "A", "]">>),
            BlockToken(line, "Symbol", <<"{">>)>> \o body : body \in CutShortTokens(line)}

RECURSIVE TokenSeqs(_)
\* the token sequences of n pieces
TokenSeqs(n) ==
    IF n = 0 THEN {<<>>} ELSE {q \o p : q \in TokenSeqs(n - 1), p \in TokenPieces(n)}

InitTok ==
    /\ pc = "tokens"
    /\ todo = {}
    /\ cons = <<>>
    /\ file_alias_name = Empty
    /\ block_name = Empty
    /\ block_alias_map = EmptyMap
    /\ start_rule_id = None
    /\ appeared_block_ids = EmptyMap
    /\ block_map = EmptyMap
    /\ cmds = <<>>
    /\ rule_names = <<>>
    /\ block_maps = <<>>
    /\ rm_start_rule_id = None
    /\ rule_map = None
    /\ use_src = EmptyMap
    /\ last = Step("init", None, TRUE, None)
    /\ self_token_i = 0
    /\ self_tokens = <<>>

\* the token parser as the fields of the instance give it
self == [file_alias_name |-> file_alias_name, token_i |-> self_token_i,
         tokens |-> self_tokens]

\* BlockParser::parse applied to the tokens of a file, on a new instance or
\* on one that has parsed before; after an Err the position of the instance
\* is where the reading stopped, any position of the tokens
ParseTokens(file, tokens) ==
    /\ pc \in {"tokens", "parsed"}
    /\ pc' = IF pc = "tokens" THEN "parsed" ELSE "reparsed"
    /\ file_alias_name' = file
    /\ self_tokens' = tokens
    /\ self_token_i' \in IF parse(self, file, tokens).ok THEN {Len(tokens)}
                         ELSE 0..Len(tokens)
    /\ last' = Step("parse", tokens, parse(self, file, tokens).ok,
                    parse(self, file, tokens).val)
    /\ UNCHANGED <<todo, cons, block_name, block_alias_map, start_rule_id,
                   appeared_block_ids, block_map, cmds, rule_names, block_maps,
                   rm_start_rule_id, rule_map, use_src>>

NextTok ==
    /\ pc = "tokens"
    /\ \E file \in FileAliases, n \in 0..MaxTokBlocks :
          \E tokens \in TokenSeqs(n) : ParseTokens(file, tokens)

\* the token sequences given to an instance that is used twice
ReuseTokens == TokenSeqs(0) \cup TokenSeqs(1)

\* parse on a new instance and once more on the same instance
NextReuse ==
    /\ pc \in {"tokens", "parsed"}
    /\ \E file \in FileAliases, tokens \in ReuseTokens : ParseTokens(file, tokens)

SpecReuse == InitTok /\ [][NextReuse]_vars

\* the translator of syntax trees on files whose blocks hold comments only
\* or nothing
NextBlocks ==
    \/ \E f \in FileAliases : NextFile(f)
    \/ \E name \in BlockNames : BeginBlock(name)
    \/ pc = "cmds" /\ translated < MaxCmds /\ BlockCommentCmd
    \/ BlockCmdsMissing
    \/ BlockPopLog
    \/ EndBlock
    \/ FileBlocksMissing
    \/ EndFile
    \/ Assemble

\* either parser of the repository reads the blocks of a file: the
\* translator of syntax trees, or the token parser on the tokens of a file
SpecBlockName == (Init \/ InitTok) /\ [][NextBlocks \/ NextTok]_vars

----------------------------------------------------------------------------
(* Properties.  A step of the translator is recognised by the history      *)
(* variable last of the state it leads to.                                 *)

\* the chain of the ID expression of a Define node made by OneExpr
ref_chain(cmd_node) == unwrap(cmd_node.choice.sub_elems[1].sub_elems[1].body).expr.chain

last_log == cons[Len(cons)]

\* the step translates a Start, Use or Define command
IsStart == last'.op = "start" /\ pc = "cmds"
IsDefine == last'.op = "define" /\ pc = "cmds"

\* C1: alias transparency.  After `use X as Y` in a block, a reference Y.R
\* of the same block resolves to <X-file>.<X-block>.R, where a 1-component
\* X names the block X of the current file.
C1_AliasTransparency ==
    (/\ last.op = "define"
     /\ Len(ref_chain(last.node)) = 2
     /\ ref_chain(last.node)[1] \in DOMAIN use_src
     /\ is_some(use_src[ref_chain(last.node)[1]].alias))
        => LET x == use_src[ref_chain(last.node)[1]].chain
               r == ref_chain(last.node)[2]
           IN  /\ last.ok
               /\ body_expr(last.val.rule).value =
                      IF Len(x) = 1 THEN format3(file_alias_name, x[1], r)
                      ELSE format3(x[1], x[2], r)

\* C2: to_rule_id follows the table: [rule] gives <file>.<block>.<rule>,
\* [alias, rule] gives <mapped file.block>.<rule> when the alias is in the
\* table and a BlockAliasNotFound error and no id when it is not,
\* [file, block, rule] gives <file>.<block>.<rule>, any other length gives
\* an internal error and no id.
C2_RuleIdTable ==
    last.op = "define" =>
        LET t == ref_chain(last.node)
            id == body_expr(last.val.rule).value
            sep == <<".">>
        IN  /\ Len(t) = 1 =>
                   last.ok /\ id = file_alias_name \o sep \o block_name \o sep \o t[1]
            /\ (Len(t) = 2 /\ t[1] \in DOMAIN block_alias_map) =>
                   last.ok /\ id = block_alias_map[t[1]] \o sep \o t[2]
            /\ (Len(t) = 2 /\ t[1] \notin DOMAIN block_alias_map) =>
                   /\ ~last.ok /\ last.val = None /\ pc = "failed"
                   /\ last_log.kind = "BlockAliasNotFound" /\ last_log.level = "Error"
            /\ Len(t) = 3 => last.ok /\ id = t[1] \o sep \o t[2] \o sep \o t[3]
            /\ Len(t) \notin {1, 2, 3} =>
                   /\ ~last.ok /\ last.val = None /\ pc = "failed"
                   /\ last_log.kind = "InternalError" /\ last_log.level = "Error"

C2_Witness ==
    /\ last.op = "define" /\ last.ok
    /\ Len(ref_chain(last.node)) = 2
    /\ body_expr(last.val.rule).value = <<"f", ".", "A", ".", "_", "R">>

\* C3: resolving a reference appends an AttemptToAccessPrivateItem warning
\* exactly when the rule name starts with "_" and the block the reference
\* resolves to is another block than the referencing one; the resolution
\* then still succeeds.
C3_Privacy ==
    [][(IsDefine /\ last'.ok) =>
          LET t == ref_chain(last'.node)
              id == split(body_expr(last'.val.rule).value)
              warned == count(cons', "AttemptToAccessPrivateItem")
                            > count(cons, "AttemptToAccessPrivateItem")
          IN  warned <=> (t[Len(t)][1] = "_" /\ id[2] # block_name)]_vars

\* C4: a Start command in a block not named Main gives a
\* StartCommandOutsideMainBlock error that aborts the file, and the
\* start-rule id is not set or changed.
C4_StartOutsideMain ==
    [][(IsStart /\ block_name # Main) =>
          /\ cons' = Append(cons, get_log("StartCommandOutsideMainBlock", Empty))
          /\ pc' = "failed"
          /\ start_rule_id' = start_rule_id /\ rm_start_rule_id' = rm_start_rule_id]_vars

\* C4 as amended: a Start command with a chain of 2 or 3 components in a
\* block not named Main gives StartCommandOutsideMainBlock; with another
\* number of components it gives InvalidID; either error aborts the file
\* and the start-rule id is not set or changed.
C4_StartOutsideMainAmended ==
    [][(IsStart /\ block_name # Main) =>
          /\ cons' = Append(cons,
                 IF Len(last'.node.chain) \in {2, 3}
                 THEN get_log("StartCommandOutsideMainBlock", Empty)
                 ELSE get_log("InvalidID", join(last'.node.chain)))
          /\ pc' = "failed"
          /\ start_rule_id' = start_rule_id /\ rm_start_rule_id' = rm_start_rule_id]_vars

C4_Witness ==
    /\ last.op = "start" /\ block_name # Main /\ Len(last.node.chain) = 2
    /\ pc = "failed" /\ last_log.kind = "StartCommandOutsideMainBlock"

\* C5: in the top-level file, a Start command that follows a Start command
\* which recorded the start-rule id gives exactly one DuplicatedStartCommand
\* error, and the recorded id is not overwritten.
C5_StartUniqueness ==
    [][(IsStart /\ file_alias_name = Empty /\ is_some(start_rule_id)) =>
          /\ cons' = Append(cons, get_log("DuplicatedStartCommand", Empty))
          /\ count(cons', "DuplicatedStartCommand") = 1
          /\ start_rule_id' = start_rule_id]_vars

\* C5 as amended: the second Start command is in the Main block too and
\* its chain has 2 or 3 components.
C5_StartUniquenessAmended ==
    [][(/\ IsStart /\ file_alias_name = Empty /\ is_some(start_rule_id)
        /\ block_name = Main /\ Len(last'.node.chain) \in {2, 3}) =>
          /\ cons' = Append(cons, get_log("DuplicatedStartCommand", Empty))
          /\ count(cons', "DuplicatedStartCommand") = 1
          /\ pc' = "failed"
          /\ start_rule_id' = start_rule_id]_vars

C5_Witness ==
    /\ last.op = "start" /\ ~last.ok /\ file_alias_name = Empty /\ block_name = Main
    /\ last_log.kind = "DuplicatedStartCommand" /\ is_some(start_rule_id)

\* C6: a Start command in the Main block of a file with a non-empty alias
\* is accepted without a diagnostic, and the start-rule id handed to the
\* catalog is only ever the one recorded in the file with the empty alias.
C6_NonTopStart ==
    [][/\ (IsStart /\ file_alias_name # Empty /\ block_name = Main) =>
              /\ cons' = cons /\ pc' = "cmds" /\ last'.ok
              /\ start_rule_id' = None /\ rm_start_rule_id' = rm_start_rule_id
       /\ rm_start_rule_id' # rm_start_rule_id =>
              file_alias_name = Empty /\ rm_start_rule_id' = start_rule_id
       /\ is_some(rule_map') => unwrap(rule_map').start_rule_id = unwrap(rm_start_rule_id)]_vars

\* C6 as amended: the chain of the Start command has 2 or 3 components.
C6_NonTopStartAmended ==
    [][/\ (/\ IsStart /\ file_alias_name # Empty /\ block_name = Main
           /\ Len(last'.node.chain) \in {2, 3}) =>
              /\ cons' = cons /\ pc' = "cmds" /\ last'.ok
              /\ start_rule_id' = None /\ rm_start_rule_id' = rm_start_rule_id
       /\ rm_start_rule_id' # rm_start_rule_id =>
              file_alias_name = Empty /\ rm_start_rule_id' = start_rule_id
       /\ is_some(rule_map') => unwrap(rule_map').start_rule_id = unwrap(rm_start_rule_id)]_vars

C6_Witness ==
    /\ last.op = "start" /\ last.ok /\ file_alias_name # Empty
    /\ is_some(rm_start_rule_id) /\ start_rule_id = None

\* C7: a Start chain of 2 components denotes (block, rule) of the current
\* file, so the command carries the current file's alias; a chain of 3
\* components denotes (file-alias, block, rule); another number of
\* components gives an InvalidID error.
C7_StartChain ==
    last.op = "start" =>
        LET c == last.node.chain
        IN  /\ (Len(c) = 2 /\ last.ok) => last.val = StartCmd(file_alias_name, c[1], c[2])
            /\ (Len(c) = 3 /\ last.ok) => last.val = StartCmd(c[1], c[2], c[3])
            /\ Len(c) \notin {2, 3} =>
                   ~last.ok /\ pc = "failed" /\ last_log.kind = "InvalidID"

\* the number written by a Num
written(str) == CHOOSE n \in 0..MaxNum : numeral(n) = str

\* the loop nodes C8 speaks of: {a,b} with a <= b and (a,b) # (0,0), {,m},
\* and {n,} with n > 0
in_range_form(loop) ==
    /\ is_some(loop) /\ unwrap(loop).kind = "Node"
    /\ LET min == unwrap(loop).min
           max == unwrap(loop).max
       IN  /\ is_some(min) \/ is_some(max)
           /\ (is_some(min) /\ ~is_some(max)) => written(unwrap(min)) > 0
           /\ (is_some(min) /\ is_some(max)) =>
                  /\ written(unwrap(min)) <= written(unwrap(max))
                  /\ <<written(unwrap(min)), written(unwrap(max))>> # <<0, 0>>

\* the loop count C8 states for such a node
stated_loop_count(loop) ==
    [min |-> IF is_some(unwrap(loop).min) THEN written(unwrap(unwrap(loop).min)) ELSE 0,
     max |-> IF is_some(unwrap(loop).max) THEN <<written(unwrap(unwrap(loop).max))>> ELSE <<>>]

\* C8: every ranged loop {a,b} with a <= b and (a,b) # (0,0) lowers to the
\* loop count (a,b), a = 0 with b > 0 included; {,m} lowers to (0,m) and
\* {n,} to (n,infinite).
C8_LoopCountParsing ==
    (/\ last.op = "to_seq_elem"
     /\ \A i \in 1..Len(last.node.sub_elems) : in_range_form(last.node.sub_elems[i].loop))
        => /\ last.ok
           /\ \A i \in 1..Len(last.node.sub_elems) :
                  last.val.sub_elems[i].loop_count =
                      stated_loop_count(last.node.sub_elems[i].loop)

\* C9: every loop count of a lowered element has min <= max and is not
\* (0,0); the source forms that would give them are rejected.
C9_LoopCountInvariant ==
    (last.op = "to_seq_elem" /\ last.ok) =>
        \A i \in 1..Len(last.val.sub_elems) :
            LET loop_count == last.val.sub_elems[i].loop_count
            IN  /\ loop_count.max # Infinite => loop_count.min <= loop_count.max[1]
                /\ ~(loop_count.min = 0 /\ loop_count.max = Normal(0))

\* the fixed table of escapes
EscapeTable ==
    ("\\" :> "\\") @@ ("\"" :> "\"") @@ ("n" :> "\n") @@ ("t" :> "\t") @@ ("z" :> "NUL")

is_reflected(e) == e.reflect
is_unknown_escape(e) == e.reflect /\ e.kind = "Node" /\ e.value \notin DOMAIN EscapeTable

separators(choice_node) ==
    {choice_node.sub_elems[i].value :
        i \in {i \in 1..Len(choice_node.sub_elems) : choice_node.sub_elems[i].kind = "Leaf"}}

\* the kind of the group lowered from the alternatives
alternatives_kind(group) == group.sub_elems[1].kind

\* C11: lowering a PureChoice whose alternatives are separated by both ":"
\* and "," at the same level gives exactly one error and no group.
C11_ChoiceSeparatorExclusivity ==
    (last.op = "to_rule_choice_elem" /\ separators(last.node) = {":", ","})
        => /\ ~last.ok /\ last.val = None
           /\ Len(cons) = 1 /\ cons[1].level = "Error"

\* C12: alternatives separated by ":" lower to a group of kind Choice,
\* alternatives separated by "," to a group of kind RandomOrder, and a
\* single Seq with no separator to a group of kind Sequence.
C12_GroupKind ==
    (last.op = "to_rule_choice_elem" /\ separators(last.node) # {":", ","})
        => /\ last.ok
           /\ alternatives_kind(last.val) =
                  CASE separators(last.node) = {":"} -> "Choice"
                    [] separators(last.node) = {","} -> "RandomOrder"
                    [] separators(last.node) = {} -> "Sequence"

\* the block being translated holds a Define command of the rule name
is_defined_in_block(rule_name) ==
    \E j \in 1..Len(cmds) : cmds[j].cmd = "Define" /\ cmds[j].rule.rule_name = rule_name

\* an earlier block of the file holds a Define command of the rule name
is_defined_in_earlier_block(rule_name) ==
    \E b \in DOMAIN block_map : \E j \in 1..Len(block_map[b].cmds) :
        /\ block_map[b].cmds[j].cmd = "Define"
        /\ block_map[b].cmds[j].rule.rule_name = rule_name

C13_WitnessOtherBlock ==
    /\ last.op = "define" /\ last.ok /\ pc = "cmds"
    /\ is_defined_in_earlier_block(last.node.name)

\* the token i is a block name that an earlier token of the file carries
is_repeated_block_name(tokens, i) ==
    /\ tokens[i].kind = "StringInBracket"
    /\ \E j \in 1..(i - 1) : tokens[j].kind = "StringInBracket" /\ tokens[j].value = tokens[i].value

C14_WitnessTree ==
    /\ last.op = "block" /\ ~last.ok /\ pc = "failed"
    /\ last.node \in DOMAIN block_map
    /\ last_log.kind = "DuplicatedBlockName"

RECURSIVE repeated(_)
\* the ids of a list that an earlier place of the list holds, in order
repeated(ids) ==
    IF ids = <<>> THEN <<>>
    ELSE repeated(SubSeq(ids, 1, Len(ids) - 1))
            \o (IF contains(SubSeq(ids, 1, Len(ids) - 1), ids[Len(ids)])
                THEN <<ids[Len(ids)]>> ELSE <<>>)

\* C15: to_define_cmd_arg_ids reports each repetition of an argument id
\* once and goes on.  The Define command is made, its generics and function
\* argument lists hold every ArgID of the node in order, repetitions
\* included, and the DuplicatedArgumentID diagnostics are those of the
\* repetitions of the generics list followed by those of the function list.
C15_DuplicatedArgumentID ==
    last.op = "to_define_cmd" =>
        /\ last.ok
        /\ last.val.rule.generics_args = last.node.generics
        /\ last.val.rule.func_args = last.node.funcs
        /\ cons = [i \in 1..Len(repeated(last.node.generics) \o repeated(last.node.funcs)) |->
                      get_log("DuplicatedArgumentID",
                              (repeated(last.node.generics) \o repeated(last.node.funcs))[i])]

C15_Witness ==
    /\ last.op = "to_define_cmd" /\ last.ok
    /\ Len(repeated(last.node.generics)) = 2
    /\ Len(repeated(last.node.funcs)) = 1
    /\ count(cons, "DuplicatedArgumentID") = 3

\* C16: in every Rule the translator makes, the names of the generics
\* argument list are pairwise distinct, and so are the names of the
\* function argument list.
C16_RuleParameterNamesDistinct ==
    (last.op = "to_define_cmd" /\ last.ok) =>
        /\ repeated(last.val.rule.generics_args) = <<>>
        /\ repeated(last.val.rule.func_args) = <<>>

\* C17: get_rule_map takes the start-rule id of the top-level file only,
\* whatever the other files hold.  When all files are translated and no
\* start-rule id was taken, a NoStartCommandInMainBlock error is appended
\* and the run fails without a catalog; when one was taken, no such error is
\* appended and the catalog the run returns has it as its start-rule id.
C17_NoStartCommandInMainBlock ==
    [][/\ last'.op = "endfile" =>
            rm_start_rule_id' = IF file_alias_name = Empty THEN start_rule_id
                                ELSE rm_start_rule_id
       /\ last'.op = "assemble" =>
            IF rm_start_rule_id = None
            THEN /\ cons' = Append(cons, get_log("NoStartCommandInMainBlock", Empty))
                 /\ pc' = "failed" /\ rule_map' = None
            ELSE /\ count(cons', "NoStartCommandInMainBlock") = 0
                 /\ is_some(rule_map') =>
                        unwrap(rule_map').start_rule_id = unwrap(rm_start_rule_id)]_vars

\* the run fails for want of a start-rule id although a file holds a Start
\* command
C17_Witness ==
    /\ last.op = "assemble" /\ ~last.ok /\ pc = "failed"
    /\ last_log.kind = "NoStartCommandInMainBlock"
    /\ \E i \in 1..Len(block_maps) : \E b \in DOMAIN block_maps[i] :
          \E j \in 1..Len(block_maps[i][b].cmds) : block_maps[i][b].cmds[j].cmd = "Start"

\* the run returns a catalog with the start-rule id of the top-level file
C17_WitnessStart ==
    /\ last.op = "assemble" /\ last.ok /\ pc = "done"
    /\ unwrap(rule_map).start_rule_id = unwrap(rm_start_rule_id)

\* the appeared ids that no Define command of the block maps of the run
\* defines
dangling_ids ==
    {id \in DOMAIN appeared_block_ids : \A r \in defined_rules(block_maps) : r.name # id}

\* C18: no dangling ids.  Once the catalog is built, get_rule_map fails if
\* and only if an appeared id is no key of the catalog, and it appends one
\* UnknownRuleID error for each such id, and nothing else, before it
\* returns.
C18_NoDanglingIds ==
    [][(last'.op = "assemble" /\ rm_start_rule_id # None) =>
          /\ (pc' = "failed") <=> (dangling_ids # {})
          /\ (pc' = "done") <=> (dangling_ids = {})
          /\ (rule_map' = None) <=> (dangling_ids # {})
          /\ Len(cons') = Len(cons) + Cardinality(dangling_ids)
          /\ SubSeq(cons', 1, Len(cons)) = cons
          /\ \A id \in dangling_ids :
                \E i \in (Len(cons) + 1)..Len(cons') :
                    cons'[i] = syntax_get_log("UnknownRuleID", id)]_vars

\* the run fails with two ids that no rule defines, both reported
C18_Witness ==
    /\ last.op = "assemble" /\ ~last.ok /\ pc = "failed"
    /\ rm_start_rule_id # None
    /\ Cardinality(dangling_ids) = 2
    /\ count(cons, "UnknownRuleID") = 2

\* C19: per-file error isolation.  When the translation of a file stops at
\* a hard error the remaining files are still attempted before the run
\* fails: the run has not failed while a file of the file map is left that
\* no parser was made for.
C19_PerFileErrorIsolation == pc = "failed" => todo = {}

\* C20: get_rule_map fails whenever a diagnostic of Error severity was
\* appended during the run, and the diagnostics of the kinds
\* AttemptToAccessPrivateItem, DuplicatedArgumentID and NamingRuleViolation
\* are appended with Warning severity.
C20_SeverityAndFailure ==
    /\ pc = "done" => \A i \in 1..Len(cons) : cons[i].level # "Error"
    /\ \A i \in 1..Len(cons) :
          cons[i].kind \in {"AttemptToAccessPrivateItem", "DuplicatedArgumentID",
                            "NamingRuleViolation"} => cons[i].level = "Warning"

\* C21: the diagnostics sink is append-only.  Across every step of the run
\* the content of the sink extends its content before the step: no
\* diagnostic is removed or reordered.
C21_SinkAppendOnly ==
    [][/\ Len(cons') >= Len(cons)
       /\ SubSeq(cons', 1, Len(cons)) = cons]_vars

\* the appeared-ids map left by the argument groups of a Generics or Func node
appeared_by_args(expr_node) ==
    to_args_from(expr_node.args, 1, <<>>, ctx, [logs |-> <<>>, appeared |-> EmptyMap]).st.appeared

\* the same chain lowered as an ID expression after the argument groups
lowered_as_id(expr_node) ==
    to_rule_expr_elem(IdNode(expr_node.chain), ctx,
                      [logs |-> <<>>, appeared |-> appeared_by_args(expr_node)])

\* C22: a Func whose chain is exactly JOIN yields the id literal JOIN without
\* resolution and records nothing in the appeared-ids map; every other Func
\* chain and every Generics chain, one named JOIN included, is resolved as an
\* ID expression is and recorded.
C22_PrimitiveFunctionBypass ==
    last.op = "to_rule_expr_elem" =>
        IF last.node.name = ".Rule.Func" /\ last.node.chain = <<<<"J", "O", "I", "N">>>>
        THEN /\ last.ok
             /\ last.val.value = <<"J", "O", "I", "N">>
             /\ last.val.kind = "Func"
             /\ cons = <<>>
             /\ appeared_block_ids = appeared_by_args(last.node)
        ELSE /\ last.ok = lowered_as_id(last.node).ok
             /\ cons = lowered_as_id(last.node).st.logs
             /\ appeared_block_ids = lowered_as_id(last.node).st.appeared
             /\ last.ok =>
                   /\ last.val.value = lowered_as_id(last.node).val.value
                   /\ last.val.value \in DOMAIN appeared_block_ids
                   /\ last.val.kind = IF last.node.name = ".Rule.Func" THEN "Func"
                                      ELSE "Generics"

\* a Func JOIN was lowered to the literal id
C22_Witness ==
    /\ last.op = "to_rule_expr_elem"
    /\ last.node.name = ".Rule.Func"
    /\ last.node.chain = <<<<"J", "O", "I", "N">>>>
    /\ last.ok
    /\ last.val.value = <<"J", "O", "I", "N">>

\* a Generics JOIN was resolved and recorded
C22_WitnessGenerics ==
    /\ last.op = "to_rule_expr_elem"
    /\ last.node.name = ".Rule.Generics"
    /\ last.node.chain = <<<<"J", "O", "I", "N">>>>
    /\ last.ok
    /\ last.val.value \in DOMAIN appeared_block_ids
    /\ last.val.value # <<"J", "O", "I", "N">>


\* the ids of the ID, Generics and Func expressions of a one-alternative rule
body_ids(rule) ==
    LET elems == rule.group.sub_elems[1].sub_elems[1].sub_elems
    IN  {elems[i].value : i \in {j \in 1..Len(elems) : elems[j].kind \in {"ID", "Generics", "Func"}}}

\* C23: appeared ids, first position wins.  Every step keeps every entry of
\* the appeared-ids map with its position, a new entry has the position of
\* the command that is translated, and after a Define command is lowered the
\* resolved id of every reference of its body is a key of the map.
C23_FirstPositionWins ==
    [][/\ \A id \in DOMAIN appeared_block_ids :
              /\ id \in DOMAIN appeared_block_ids'
              /\ appeared_block_ids'[id] = appeared_block_ids[id]
       /\ \A id \in DOMAIN appeared_block_ids' \ DOMAIN appeared_block_ids :
              appeared_block_ids'[id] = ctx.pos
       /\ (last'.op = "define" /\ last'.ok /\ pc = "cmds") =>
              body_ids(last'.val.rule) \subseteq DOMAIN appeared_block_ids']_vars

\* a Define command of a later file has referred to an id that an earlier
\* file had recorded, and the map still holds the earlier position
C23_Witness ==
    /\ last.op = "define" /\ last.ok
    /\ \E id \in body_ids(last.val.rule) :
           /\ id \in DOMAIN appeared_block_ids
           /\ appeared_block_ids[id][1] # file_alias_name

\* the aliases that the Use commands of a command list introduce
own_aliases(block_cmds) ==
    {block_cmds[i].block_alias_name :
        i \in {j \in 1..Len(block_cmds) : block_cmds[j].cmd = "Use"}}

\* C24: lifetime of the block-alias table.  The table is empty when the
\* commands of a block, and a file, are started; while the commands of a
\* block are translated it holds the aliases of that block's own Use commands
\* only; and a 2-component reference whose alias no Use command of the
\* block has introduced fails with BlockAliasNotFound, whatever the Use
\* commands of the earlier blocks.
C24_BlockAliasTableLifetime ==
    /\ last.op \in {"file", "block", "endblock", "poplog"} => block_alias_map = EmptyMap
    /\ pc = "cmds" => DOMAIN block_alias_map = own_aliases(cmds)
    /\ (/\ last.op = "define"
        /\ Len(ref_chain(last.node)) = 2
        /\ ref_chain(last.node)[1] \notin own_aliases(cmds))
           => ~last.ok /\ pc = "failed" /\ last_log.kind = "BlockAliasNotFound"

\* a reference through an alias of an earlier block of the file has failed
C24_Witness ==
    /\ last.op = "define" /\ ~last.ok
    /\ Len(ref_chain(last.node)) = 2
    /\ \E b \in DOMAIN block_map : ref_chain(last.node)[1] \in own_aliases(block_map[b].cmds)
    /\ cons # <<>>
    /\ last_log.kind = "BlockAliasNotFound"


\* C25: synthetic Main.  Whenever to_block_map returns a block map, for a
\* file without any block and for a file with a Main block of its own as
\* well, the map has an entry keyed by the empty string that is a block
\* named Main without commands, and every block of the file is in the map
\* under its own name.
C25_SyntheticMain ==
    [][(last'.op \in {"endfile", "noblocks"} /\ last'.ok) =>
          /\ Len(block_maps') = Len(block_maps) + 1
          /\ Empty \in DOMAIN block_maps'[Len(block_maps')]
          /\ block_maps'[Len(block_maps')][Empty] = Block(Main, <<>>)
          /\ \A k \in DOMAIN block_map :
                 /\ k \in DOMAIN block_maps'[Len(block_maps')]
                 /\ block_maps'[Len(block_maps')][k] = block_map[k]]_vars


\* C26: round-trip naming.  The rule of a Define command named R in block B
\* of the file with alias F has the name F.B.R, with a leading dot for the
\* empty F, and the local name R; a 1-component reference R from inside that
\* block resolves to the same string.
C26_RoundTripNaming ==
    (last.op = "define" /\ last.ok) =>
        /\ last.val.rule.name =
               file_alias_name \o <<".">> \o block_name \o <<".">> \o last.node.name
        /\ last.val.rule.rule_name = last.node.name
        /\ file_alias_name = <<>> => Head(last.val.rule.name) = "."
        /\ split(last.val.rule.name) = <<file_alias_name, block_name, last.node.name>>
        /\ ref_chain(last.node) = <<last.node.name>> =>
               body_expr(last.val.rule).value = last.val.rule.name

\* a rule R of the top-level file whose body refers to R itself
C26_Witness ==
    /\ last.op = "define" /\ last.ok
    /\ file_alias_name = <<>>
    /\ ref_chain(last.node) = <<last.node.name>>
    /\ last.val.rule.name = <<".", "A", ".", "R">>
    /\ body_expr(last.val.rule).value = <<".", "A", ".", "R">>


\* C27: the token parser is reusable.  Every call of parse, on a new
\* instance or on one left by an earlier call that succeeded or failed
\* midway, sets the fields of the instance from its arguments and returns
\* what the call with the same arguments returns on a new instance.
C27_ParserReusable ==
    last.op = "parse" =>
        /\ last.ok = parse(NewBlockParser, file_alias_name, last.node).ok
        /\ last.val = parse(NewBlockParser, file_alias_name, last.node).val
        /\ self_tokens = last.node
        /\ last.ok => self_token_i = Len(self_tokens)

\* the second call on an instance has read a block
C27_Witness ==
    /\ pc = "reparsed"
    /\ last.op = "parse" /\ last.ok
    /\ last.val # EmptyMap

\* the first call has failed midway and left the instance at a later token
C27_WitnessFailedMidway ==
    /\ pc = "parsed"
    /\ last.op = "parse" /\ ~last.ok
    /\ self_token_i > 0


\* the tokens are those of one block whose first command is a pragma, and
\* they end before the `,` that ends the pragma
pragma_cut_short(tokens) ==
    /\ Len(tokens) >= 3
    /\ tokens[1].kind = "StringInBracket"
    /\ is_symbol(tokens[2], "{")
    /\ is_symbol(tokens[3], "+")
    /\ \A j \in 4..Len(tokens) : tokens[j].kind \in {"Space", "ID"}

\* C28: a pragma whose tokens end before its terminating `,` makes the token
\* parser return UnexpectedEOF, expecting "pragma name" when no name was
\* read and "," once the name was read.
C28_PragmaUnexpectedEOF ==
    (last.op = "parse" /\ pragma_cut_short(last.node)) =>
        /\ ~last.ok
        /\ last.val.kind = "UnexpectedEOF"
        /\ last.val.args[2] = IF \E j \in 4..Len(last.node) : last.node[j].kind = "ID"
                               THEN "," ELSE "pragma name"


\* C29: alias visibility follows the order of the commands of a block.  A
\* Define command whose body is a 2-component reference resolves when a Use
\* command translated before it in the block has introduced the alias, and
\* fails with BlockAliasNotFound when none has, a Use command that would
\* follow it in the block being of no effect.
C29_AliasVisibilityOrder ==
    [][(IsDefine /\ Len(ref_chain(last'.node)) = 2) =>
          IF ref_chain(last'.node)[1] \in own_aliases(cmds)
          THEN last'.ok
          ELSE /\ ~last'.ok
               /\ pc' = "failed"
               /\ cmds' = cmds
               /\ cons' # <<>>
               /\ cons'[Len(cons')].kind = "BlockAliasNotFound"]_vars

\* the Define was translated after the Use command of its alias and resolves
C29_Witness ==
    /\ last.op = "define" /\ last.ok /\ pc = "cmds"
    /\ Len(ref_chain(last.node)) = 2
    /\ Len(cmds) = 2
    /\ cmds[1].cmd = "Use"
    /\ cmds[1].block_alias_name = ref_chain(last.node)[1]

\* the Define is the first command of its block and fails
C29_WitnessBefore ==
    /\ last.op = "define" /\ ~last.ok /\ pc = "failed"
    /\ Len(ref_chain(last.node)) = 2
    /\ cmds = <<>>
    /\ cons # <<>>
    /\ last_log.kind = "BlockAliasNotFound"

\* the target of the last Use command of a command list that introduces the alias
latest_use_target(block_cmds, alias) ==
    LET k == CHOOSE i \in 1..Len(block_cmds) :
                 /\ block_cmds[i].cmd = "Use" /\ block_cmds[i].block_alias_name = alias
                 /\ \A j \in (i + 1)..Len(block_cmds) :
                        ~(block_cmds[j].cmd = "Use" /\ block_cmds[j].block_alias_name = alias)
    IN  block_cmds[k].file_alias_name \o <<".">> \o block_cmds[k].block_name

\* C30: a Use command that introduces an alias the block already has
\* appends no diagnostic and replaces the mapping of the alias; a reference
\* through the alias resolves to the target of the last Use command
\* translated before it, the first target between the two Use commands and
\* the second after them.
C30_LaterUseWins ==
    [][/\ (last'.op = "use" /\ pc = "cmds" /\ last'.ok
           /\ last'.val.block_alias_name \in DOMAIN block_alias_map) =>
              /\ cons' = cons
              /\ pc' = "cmds"
              /\ DOMAIN block_alias_map' = DOMAIN block_alias_map
              /\ \A a \in DOMAIN block_alias_map :
                     block_alias_map'[a] =
                         IF a = last'.val.block_alias_name
                         THEN last'.val.file_alias_name \o <<".">> \o last'.val.block_name
                         ELSE block_alias_map[a]
       /\ (IsDefine /\ Len(ref_chain(last'.node)) = 2
              /\ ref_chain(last'.node)[1] \in own_aliases(cmds)) =>
              /\ last'.ok
              /\ body_expr(last'.val.rule).value =
                     latest_use_target(cmds, ref_chain(last'.node)[1])
                         \o <<".">> \o ref_chain(last'.node)[2]]_vars

\* a reference after two Use commands of one alias with different targets
\* has resolved to the second target
C30_Witness ==
    /\ last.op = "define" /\ last.ok /\ pc = "cmds"
    /\ Len(cmds) = 3
    /\ cmds[1].cmd = "Use" /\ cmds[2].cmd = "Use"
    /\ cmds[1].block_alias_name = cmds[2].block_alias_name
    /\ cmds[1].file_alias_name # cmds[2].file_alias_name
    /\ cons = <<>>
    /\ body_expr(last.val.rule).value = <<"f", ".", "A", ".", "R">>

\* a reference between the two Use commands has resolved to the first target
C30_WitnessBetween ==
    /\ last.op = "use" /\ last.ok /\ pc = "cmds"
    /\ Len(cmds) = 3
    /\ cmds[1].cmd = "Use" /\ cmds[2].cmd = "Define"
    /\ cmds[1].file_alias_name # cmds[3].file_alias_name
    /\ body_expr(cmds[2].rule).value =
           cmds[1].file_alias_name \o <<".">> \o cmds[1].block_name \o <<".", "R">>
    /\ block_alias_map[cmds[3].block_alias_name] = <<"f", ".", "A">>


============================================================================
